---- MODULE Spec2Model ----
(***************************************************************************)
(* Family tree application: the DataConverter ingestion (record linkage),  *)
(* and the AdminPanel edits of the ingested data set.                      *)
(*                                                                         *)
(* Representation.  A JavaScript string is a sequence of one-character     *)
(* strings (<<"a", " ", "b">> is 'a b').  null/undefined of a string field *)
(* is the marker NULL, which no real string equals.  A year is <<>> for    *)
(* null and <<n>> for the number n.  A Map is a sequence of records in     *)
(* insertion order with unique keys (people, marriages) or a function      *)
(* (aliases).                                                              *)
(***************************************************************************)
EXTENDS Integers, Sequences, FiniteSets, TLC

VARIABLES people, aliases, marriages, calls, data, initialized, ops,
          treePeople, localStorage, logs,
          detailsPanel, searchPanel, event, adminModal, isAuthenticated,
          generationCache, elements, hierarchy

vars == <<people, aliases, marriages, calls, data, initialized, ops,
          treePeople, localStorage, logs,
          detailsPanel, searchPanel, event, adminModal, isAuthenticated,
          generationCache, elements, hierarchy>>

\* the tree views: the generation cache and the elements of FamilyTreeGL, the hierarchy
\* of FamilyTree2D
viewVars == <<generationCache, elements, hierarchy>>

\* the state of the page around the converter and the data: the people map of the
\* tree, the browser's storage, the log, the details and search panels, the click
\* being dispatched, the admin modal and the login flag
pageVars == <<treePeople, localStorage, logs, detailsPanel, searchPanel, event, adminModal, isAuthenticated>>

\* ------------------------------------------------------------------------
\* Bounds of the model
\* ------------------------------------------------------------------------
MaxRows == 2
MaxNameRows == 2
MaxLongRows == 3
MaxCalls == 2
MaxAgainRows == 1
MaxOps == 2
MaxAdminRows == 2
MaxRoster == 2

\* ------------------------------------------------------------------------
\* JavaScript values and string primitives
\* ------------------------------------------------------------------------
NULL == <<"null">>
Dash == <<"-">>
NoYear == <<>>

RECURSIVE Zeros(_)
Zeros(n) == IF n <= 0 THEN <<>> ELSE <<"0">> \o Zeros(n - 1)

PadWidth == 6
HashModulus == 1000000

\* String.prototype.padStart(6, '0')
PadStart(s) == IF Len(s) >= PadWidth THEN s ELSE Zeros(PadWidth - Len(s)) \o s

Digits == <<"0", "1", "2", "3", "4", "5", "6", "7", "8", "9">>

IsDigit(c) == \E d \in 1..10 : Digits[d] = c

DigitVal(c) == (CHOOSE d \in 1..10 : Digits[d] = c) - 1

\* UTF-16 code unit of the characters the model uses
CharCode(c) ==
    CASE c = " " -> 32
      [] c = "," -> 44
      [] c = "-" -> 8212
      [] IsDigit(c) -> 48 + DigitVal(c)
      [] c = "A" -> 65
      [] c = "M" -> 77
      [] c = "P" -> 80
      [] c = "_" -> 95
      [] c = "a" -> 97
      [] c = "b" -> 98
      [] c = "c" -> 99
      [] c = "d" -> 100
      [] c = "x" -> 120
      [] OTHER -> 63

\* String.prototype.toLowerCase
LowerChar(c) == IF c = "A" THEN "a" ELSE IF c = "M" THEN "m" ELSE IF c = "P" THEN "p" ELSE c

ToLowerCase(s) == [i \in 1..Len(s) |-> LowerChar(s[i])]

\* String.prototype.includes
Includes(s, t) == \E i \in 0..(Len(s) - Len(t)) : SubSeq(s, i + 1, i + Len(t)) = t

\* s.split(/\s+/): the pieces between maximal runs of white space
RECURSIVE SplitFrom(_, _, _, _)
SplitFrom(s, i, cur, acc) ==
    IF i > Len(s) THEN Append(acc, cur)
    ELSE IF s[i] = " "
         THEN IF i > 1 /\ s[i - 1] = " "
              THEN SplitFrom(s, i + 1, cur, acc)
              ELSE SplitFrom(s, i + 1, <<>>, Append(acc, cur))
         ELSE SplitFrom(s, i + 1, Append(cur, s[i]), acc)

SplitWords(s) == SplitFrom(s, 1, <<>>, <<>>)

\* s.split(',')
RECURSIVE SplitCommaFrom(_, _, _, _)
SplitCommaFrom(s, i, cur, acc) ==
    IF i > Len(s) THEN Append(acc, cur)
    ELSE IF s[i] = ","
         THEN SplitCommaFrom(s, i + 1, <<>>, Append(acc, cur))
         ELSE SplitCommaFrom(s, i + 1, Append(cur, s[i]), acc)

SplitComma(s) == SplitCommaFrom(s, 1, <<>>, <<>>)

\* String.prototype.trim
RECURSIVE TrimLeft(_)
TrimLeft(s) == IF s # <<>> /\ Head(s) = " " THEN TrimLeft(Tail(s)) ELSE s

RECURSIVE TrimRight(_)
TrimRight(s) == IF s # <<>> /\ s[Len(s)] = " " THEN TrimRight(SubSeq(s, 1, Len(s) - 1)) ELSE s

Trim(s) == TrimRight(TrimLeft(s))

\* Comparison of two strings by UTF-16 code units (the default Array.sort order)
RECURSIVE StrLess(_, _)
StrLess(a, b) ==
    IF b = <<>> THEN FALSE
    ELSE IF a = <<>> THEN TRUE
    ELSE IF CharCode(Head(a)) # CharCode(Head(b)) THEN CharCode(Head(a)) < CharCode(Head(b))
    ELSE StrLess(Tail(a), Tail(b))

\* Number.prototype.toString of a natural number
RECURSIVE NumToString(_)
NumToString(n) == IF n < 10 THEN <<Digits[n + 1]>> ELSE NumToString(n \div 10) \o <<Digits[(n % 10) + 1]>>

\* parseInt: the value of the longest prefix of digits, <<>> (NaN) when there is none
RECURSIVE ParseDigits(_, _, _)
ParseDigits(s, i, acc) ==
    IF i > Len(s) \/ ~IsDigit(s[i]) THEN acc
    ELSE ParseDigits(s, i + 1, acc * 10 + DigitVal(s[i]))

ParseInt(s) == IF s = <<>> \/ ~IsDigit(s[1]) THEN <<>> ELSE <<ParseDigits(s, 1, 0)>>

\* Truthiness of a year value (null, NaN and 0 are falsy)
YearTruthy(y) == y # <<>> /\ y[1] # 0

\* Truthiness of a string value (null, undefined and '' are falsy)
StrTruthy(s) == s # NULL /\ s # <<>>

Abs(x) == IF x < 0 THEN 0 - x ELSE x

Max(a, b) == IF a > b THEN a ELSE b

\* the ids of a sequence of records with an id field
Ids(seq) == {seq[i].id : i \in 1..Len(seq)}

\* the elements of a sequence
Elems(seq) == {seq[i] : i \in 1..Len(seq)}

RECURSIVE FilterSeq(_, _)
FilterSeq(seq, keep) ==
    IF seq = <<>> THEN <<>>
    ELSE IF Head(seq) \in keep THEN <<Head(seq)>> \o FilterSeq(Tail(seq), keep)
    ELSE FilterSeq(Tail(seq), keep)

RECURSIVE RemoveFromSeq(_, _)
RemoveFromSeq(seq, x) ==
    IF seq = <<>> THEN <<>>
    ELSE IF Head(seq) = x THEN RemoveFromSeq(Tail(seq), x)
    ELSE <<Head(seq)>> \o RemoveFromSeq(Tail(seq), x)

\* [...new Set(seq)]: the first occurrence of each element, in order
RECURSIVE Dedup(_, _)
Dedup(seq, seen) ==
    IF seq = <<>> THEN <<>>
    ELSE IF Head(seq) \in seen THEN Dedup(Tail(seq), seen)
    ELSE <<Head(seq)>> \o Dedup(Tail(seq), seen \cup {Head(seq)})

\* ------------------------------------------------------------------------
\* DataConverter: one CSV row to a person
\* ------------------------------------------------------------------------

\* A 32-bit integer is held as <<high 16 bits, low 16 bits>> of its two's complement
\* form, so that the arithmetic wraps as the JavaScript bitwise operators make it wrap.
Limb == 65536

\* one round of hashString: hash = ((hash << 5) - hash) + char; hash = hash & hash,
\* which is 31 * hash + char modulo 2^32
HashStep(hash, char) ==
    LET lo == 31 * hash[2] + char
        hi == 31 * hash[1] + (lo \div Limb)
    IN <<hi % Limb, lo % Limb>>

\* Math.abs of the 32-bit integer, as <<high, low>> of the magnitude (at most 2^31)
AbsInt32(hash) ==
    IF hash[1] < Limb \div 2 THEN hash
    ELSE IF hash[2] = 0 THEN <<Limb - hash[1], 0>>
    ELSE <<(Limb - 1) - hash[1], Limb - hash[2]>>

RECURSIVE HashFrom(_, _, _)
HashFrom(str, i, hash) ==
    IF i > Len(str) THEN AbsInt32(hash)
    ELSE HashFrom(str, i + 1, HashStep(hash, CharCode(str[i])))

\* hashString: the magnitude of the 32-bit hash of the string
hashString(str) == HashFrom(str, 1, <<0, 0>>)

\* nameHash % 1000000
HashMod(h) ==
    LET high == (((h[1] * 256) % HashModulus) * 256) % HashModulus
    IN (high + h[2]) % HashModulus

\* generatePersonId: the padded explicit ID, else the hash of the name modulo 1000000
generatePersonId(originalId, name) ==
    IF StrTruthy(originalId) /\ originalId # Dash
    THEN <<"P", "-">> \o PadStart(originalId)
    ELSE <<"P", "-">> \o PadStart(NumToString(HashMod(hashString(name))))

\* generateAlternativeNames: first, first + middle, middle + last, without duplicates
generateAlternativeNames(firstName, middleName, lastName) ==
    LET usable(s) == StrTruthy(s) /\ s # Dash
        a1 == IF usable(firstName) THEN <<firstName>> ELSE <<>>
        a2 == IF usable(firstName) /\ usable(middleName)
              THEN <<firstName \o <<" ">> \o middleName>> ELSE <<>>
        a3 == IF usable(middleName) /\ usable(lastName)
              THEN <<middleName \o <<" ">> \o lastName>> ELSE <<>>
    IN Dedup(a1 \o a2 \o a3, {})

\* the 'Birth Year' and 'Death Year' columns: '—' and '' are null, else parseInt(value) || null
YearField(value) ==
    IF value = Dash \/ value = <<>> THEN NoYear
    ELSE IF YearTruthy(ParseInt(value)) THEN ParseInt(value) ELSE NoYear

\* the 'Father ID' / 'Mother ID' column
RefField(value) ==
    IF value = Dash \/ value = <<>> THEN NULL ELSE <<"P", "-">> \o PadStart(value)

RECURSIVE SpouseList(_)
SpouseList(parts) ==
    IF parts = <<>> THEN <<>>
    ELSE IF Trim(Head(parts)) = <<>> THEN SpouseList(Tail(parts))
    ELSE << <<"P", "-">> \o PadStart(Trim(Head(parts))) >> \o SpouseList(Tail(parts))

\* the 'Spouse IDs' column: split on commas, trim, drop the empty ones, pad
SpouseField(value) ==
    IF value = Dash \/ value = <<>> THEN <<>> ELSE SpouseList(SplitComma(value))

\* createPersonFromCSV: the person of a row (the row is dropped when usable is FALSE)
createPersonFromCSV(row) ==
    LET originalId == IF row.ID = Dash \/ row.ID = <<>> THEN NULL ELSE row.ID
    IN [id |-> generatePersonId(originalId, row.name),
        name |-> row.name,
        altNames |-> generateAlternativeNames(row.first, row.middle, row.last),
        birthYear |-> YearField(row.birth),
        deathYear |-> YearField(row.death),
        fatherId |-> RefField(row.father),
        motherId |-> RefField(row.mother),
        spouseIds |-> SpouseField(row.spouses)]

\* the required-field check at the end of createPersonFromCSV
RowUsable(row) == StrTruthy(row.name) /\ row.name # Dash

\* ------------------------------------------------------------------------
\* DataConverter: duplicate detection
\* ------------------------------------------------------------------------

\* the number of words of words1 that equal, contain or are contained in a word of words2
RECURSIVE CountMatches(_, _)
CountMatches(words1, words2) ==
    IF words1 = <<>> THEN 0
    ELSE (IF \E j \in 1..Len(words2) :
                \/ Head(words1) = words2[j]
                \/ Includes(Head(words1), words2[j])
                \/ Includes(words2[j], Head(words1))
          THEN 1 ELSE 0) + CountMatches(Tail(words1), words2)

\* calculateNameSimilarity as the fraction <<matches, total>>
calculateNameSimilarity(name1, name2) ==
    IF ~StrTruthy(name1) \/ ~StrTruthy(name2) THEN <<0, 1>>
    ELSE LET words1 == SplitWords(ToLowerCase(name1))
             words2 == SplitWords(ToLowerCase(name2))
         IN <<CountMatches(words1, words2), Max(Len(words1), Len(words2))>>

\* similarity < 0.8
SimBelowNameThreshold(sim) == 10 * sim[1] < 8 * sim[2]

\* similarity > 0.9
SimAboveAltThreshold(sim) == 10 * sim[1] > 9 * sim[2]

BirthTolerance == 2

\* the birth-year check of isSamePerson: both known and more than 2 apart
BirthYearsConflict(y1, y2) ==
    YearTruthy(y1) /\ YearTruthy(y2) /\ Abs(y1[1] - y2[1]) > BirthTolerance

AltNamesMatch(altNames1, altNames2) ==
    \E i \in 1..Len(altNames1) : \E j \in 1..Len(altNames2) :
        SimAboveAltThreshold(calculateNameSimilarity(altNames1[i], altNames2[j]))

\* isSamePerson with an alternate-name match overriding the birth-year check
isSamePerson_AltNamesOverride(person1, person2) ==
    IF SimBelowNameThreshold(calculateNameSimilarity(person1.name, person2.name)) THEN FALSE
    ELSE AltNamesMatch(person1.altNames, person2.altNames)

isSamePerson(person1, person2) ==
    IF SimBelowNameThreshold(calculateNameSimilarity(person1.name, person2.name)) THEN FALSE
    ELSE IF BirthYearsConflict(person1.birthYear, person2.birthYear) THEN FALSE
    ELSE AltNamesMatch(person1.altNames, person2.altNames)

\* findDuplicatePerson: the index of the first accepted person that isSamePerson, 0 if none
findDuplicatePerson(ppl, person) ==
    IF \E i \in 1..Len(ppl) : isSamePerson(person, ppl[i])
    THEN CHOOSE i \in 1..Len(ppl) :
            /\ isSamePerson(person, ppl[i])
            /\ \A j \in 1..(i - 1) : ~isSamePerson(person, ppl[j])
    ELSE 0

\* Map.prototype.set on the people map: replace in place when the key exists, else append
MapSet(ppl, person) ==
    IF person.id \in Ids(ppl)
    THEN [i \in 1..Len(ppl) |-> IF ppl[i].id = person.id THEN person ELSE ppl[i]]
    ELSE Append(ppl, person)

\* Map.prototype.set on the alias map
AliasSet(als, key, value) ==
    [k \in (DOMAIN als) \cup {key} |-> IF k = key THEN value ELSE als[k]]

NoAliases == [k \in {} |-> NULL]

\* addPerson: a duplicate becomes an alias of the person found, anything else is stored
addPerson(st, person) ==
    LET dup == findDuplicatePerson(st.people, person)
    IN IF dup # 0
       THEN [st EXCEPT !.aliases = AliasSet(st.aliases, person.id, st.people[dup].id)]
       ELSE [st EXCEPT !.people = MapSet(st.people, person)]

\* the loop of convertCSVToJSON over the rows
RECURSIVE ProcessRows(_, _)
ProcessRows(st, rows) ==
    IF rows = <<>> THEN st
    ELSE ProcessRows(IF RowUsable(Head(rows))
                     THEN addPerson(st, createPersonFromCSV(Head(rows)))
                     ELSE st,
                     Tail(rows))

\* ------------------------------------------------------------------------
\* DataConverter: references, marriages, validation
\* ------------------------------------------------------------------------

\* getCanonicalId without the alias lookup
getCanonicalId_NoAlias(st, id) ==
    IF StrTruthy(id) /\ id \in Ids(st.people) THEN id ELSE NULL

\* getCanonicalId: the alias target when the id is an alias key, the id itself when it is
\* a key of people, else null
getCanonicalId(st, id) ==
    IF ~StrTruthy(id) THEN NULL
    ELSE IF id \in DOMAIN st.aliases /\ StrTruthy(st.aliases[id]) THEN st.aliases[id]
    ELSE IF id \in Ids(st.people) THEN id
    ELSE NULL

RECURSIVE CanonicalSpouses(_, _)
CanonicalSpouses(st, ids) ==
    IF ids = <<>> THEN <<>>
    ELSE (IF StrTruthy(getCanonicalId(st, Head(ids)))
          THEN <<getCanonicalId(st, Head(ids))>> ELSE <<>>)
         \o CanonicalSpouses(st, Tail(ids))

\* processAliases: every reference of every person goes through getCanonicalId
processAliases(st) ==
    [st EXCEPT !.people =
        [i \in 1..Len(st.people) |->
            [st.people[i] EXCEPT
                !.fatherId = IF StrTruthy(@) THEN getCanonicalId(st, @) ELSE @,
                !.motherId = IF StrTruthy(@) THEN getCanonicalId(st, @) ELSE @,
                !.spouseIds = CanonicalSpouses(st, @)]]]

\* [spouse1Id, spouse2Id].sort()
SortPair(s1, s2) == IF StrLess(s2, s1) THEN <<s2, s1>> ELSE <<s1, s2>>

UnsortedMarriageId(s1, s2) == <<"M", "-">> \o s1 \o <<"_">> \o s2

\* generateMarriageId: 'M-' + smaller id + '_' + larger id
generateMarriageId(s1, s2) ==
    <<"M", "-">> \o SortPair(s1, s2)[1] \o <<"_">> \o SortPair(s1, s2)[2]

\* the first loop of createMarriages for one person: a record per new marriage id
RECURSIVE MarriagesOfPerson(_, _, _)
MarriagesOfPerson(map, person, spouseIds) ==
    IF spouseIds = <<>> THEN map
    ELSE LET spouseId == Head(spouseIds)
             marriageId == generateMarriageId(person.id, spouseId)
         IN MarriagesOfPerson(
                IF StrTruthy(spouseId) /\ spouseId # person.id /\ marriageId \notin Ids(map)
                THEN Append(map, [id |-> marriageId, spouse1Id |-> person.id,
                                  spouse2Id |-> spouseId, children |-> <<>>])
                ELSE map,
                person, Tail(spouseIds))

RECURSIVE MarriagesOfPeople(_, _)
MarriagesOfPeople(map, ppl) ==
    IF ppl = <<>> THEN map
    ELSE MarriagesOfPeople(MarriagesOfPerson(map, Head(ppl), Head(ppl).spouseIds), Tail(ppl))

\* the second loop of createMarriages: a person with both parents set is pushed to the
\* children of the marriage of the two parents, when there is one
RECURSIVE AttachChildren(_, _)
AttachChildren(map, ppl) ==
    IF ppl = <<>> THEN map
    ELSE LET person == Head(ppl)
             marriageId == generateMarriageId(person.fatherId, person.motherId)
         IN AttachChildren(
                IF StrTruthy(person.fatherId) /\ StrTruthy(person.motherId)
                THEN [i \in 1..Len(map) |->
                        IF map[i].id = marriageId
                        THEN [map[i] EXCEPT !.children = Append(@, person.id)]
                        ELSE map[i]]
                ELSE map,
                Tail(ppl))

createMarriages(st) ==
    [st EXCEPT !.marriages = AttachChildren(MarriagesOfPeople(<<>>, st.people), st.people)]

\* ValidatePerson without the self-reference check
ValidatePerson_NoSelfCheck(ppl, person) ==
    [person EXCEPT
        !.fatherId = IF StrTruthy(@) /\ @ \notin Ids(ppl) THEN NULL ELSE @,
        !.motherId = IF StrTruthy(@) /\ @ \notin Ids(ppl) THEN NULL ELSE @,
        !.spouseIds = FilterSeq(@, Ids(ppl))]

\* validateRelationships for one person: references to unknown people go, then self-references
ValidatePerson(ppl, person) ==
    LET f1 == IF StrTruthy(person.fatherId) /\ person.fatherId \notin Ids(ppl)
              THEN NULL ELSE person.fatherId
        m1 == IF StrTruthy(person.motherId) /\ person.motherId \notin Ids(ppl)
              THEN NULL ELSE person.motherId
        s1 == FilterSeq(person.spouseIds, Ids(ppl))
    IN [person EXCEPT
            !.fatherId = IF f1 = person.id THEN NULL ELSE f1,
            !.motherId = IF m1 = person.id THEN NULL ELSE m1,
            !.spouseIds = RemoveFromSeq(s1, person.id)]

validateRelationships(st) ==
    [st EXCEPT !.people = [i \in 1..Len(st.people) |-> ValidatePerson(st.people, st.people[i])]]

\* convertCSVToJSON without processAliases and validateRelationships
convertCSVToJSON_NoReferencePass(st, rows) == createMarriages(ProcessRows(st, rows))

\* convertCSVToJSON on a converter in state st: the state it leaves the converter in
convertCSVToJSON(st, rows) ==
    validateRelationships(createMarriages(processAliases(ProcessRows(st, rows))))

\* the state the constructor leaves
NewConverter == [people |-> <<>>, aliases |-> NoAliases, marriages |-> <<>>]

\* the object convertCSVToJSON returns
ResultOf(st) == [people |-> st.people, aliases |-> st.aliases, marriages |-> st.marriages]

\* ------------------------------------------------------------------------
\* Inputs: the rows of a CSV file, after parseCSVLine, as field maps
\* ------------------------------------------------------------------------
Row(id, name, first, middle, last, birth, death, father, mother, spouses) ==
    [ID |-> id, name |-> name, first |-> first, middle |-> middle, last |-> last,
     birth |-> birth, death |-> death, father |-> father, mother |-> mother,
     spouses |-> spouses]

SeqsUpTo(S, n) == UNION {[1..k -> S] : k \in 0..n}

\* rows that differ in their references: equal names are duplicates (first name = name)
RowsRef ==
    {Row(id, nm, nm, <<>>, <<>>, <<>>, <<>>, ref[1], ref[2], ref[3]) :
        id \in {<<"1">>, <<"2">>},
        nm \in {<<"a">>, <<"b">>},
        ref \in {<<<<>>, Dash, <<>>>>,
                 <<<<"1">>, Dash, <<>>>>,
                 <<<<"2">>, Dash, <<>>>>,
                 <<<<"1">>, <<"2">>, <<>>>>,
                 <<<<"2">>, <<"2">>, <<>>>>,
                 <<<<>>, Dash, <<"1", ",", " ", "2">>>>,
                 <<<<"1">>, <<"2">>, <<"1", ",", " ", "2">>>>,
                 <<<<"2">>, Dash, <<"1", ",", " ", "2">>>>}}

\* rows that differ in their names and birth years, without references
RowsName ==
    {Row(id, nm, fm[1], fm[2], <<>>, birth, Dash, <<>>, <<>>, <<>>) :
        id \in {<<"1">>, <<"2">>},
        nm \in {<<"a">>, <<"a", " ", "b">>},
        fm \in {<<Dash, <<>>>>, <<<<"a">>, <<"c">>>>},
        birth \in {<<>>, <<"1", "9", "0", "0">>, <<"1", "9", "0", "2">>, <<"1", "9", "0", "3">>}}

\* rows for longer files: the ID 1 in two spellings, or no ID (hashed name)
RowsLong ==
    {Row(id, nm, nm, <<>>, <<>>, <<>>, <<>>, f, <<>>, <<>>) :
        id \in {<<"1">>, <<"0", "1">>, <<>>},
        nm \in {<<"a">>, <<"b">>},
        f \in {<<>>, <<"1">>}}

Inputs == SeqsUpTo(RowsRef, MaxRows) \cup SeqsUpTo(RowsLong, MaxLongRows)

InputsNames == SeqsUpTo(RowsName, MaxNameRows)

\* ------------------------------------------------------------------------
\* State machine
\* ------------------------------------------------------------------------
Converter == [people |-> people, aliases |-> aliases, marriages |-> marriages]

NoData == [people |-> <<>>, aliases |-> NoAliases, marriages |-> <<>>]

\* An item of localStorage is the text stored under a key: no item ("absent": getItem
\* returns null), the empty string, the JSON text of a value ("json", written as the
\* value JSON.parse gives for it), or a text that JSON.parse rejects.
NoItem == [kind |-> "absent", value |-> <<>>]
EmptyText == [kind |-> "empty", value |-> <<>>]
NotJson == [kind |-> "garbage", value |-> <<>>]

\* JSON.stringify(value): the model's values are strings, numbers, null, arrays and
\* objects of these, which JSON.parse gives back as they were
JSONstringify(value) == [kind |-> "json", value |-> value]

\* a text is truthy unless it is the empty string
TextTruthy(item) == item.kind \in {"json", "garbage"}

\* localStorage with neither key set
EmptyStorage == [familyTreeData |-> NoItem, ft_logs |-> NoItem]

\* no click event is being dispatched
NoEvent == [target |-> NULL, person |-> NULL, phase |-> "none"]

\* new DataConverter(); the application has no data yet
\* and no tree; the page has just loaded: the panels are closed, nobody is logged in,
\* the storage is empty
\* the tree views before their construction: an empty generation cache, nothing built
NoGenerations == [id \in {} |-> 0]

NotBuilt == [built |-> FALSE, threw |-> FALSE, nodes |-> <<>>]

Init ==
    /\ people = <<>>
    /\ aliases = NoAliases
    /\ marriages = <<>>
    /\ calls = <<>>
    /\ data = NoData
    /\ initialized = FALSE
    /\ ops = 0
    /\ treePeople = <<>>
    /\ localStorage = EmptyStorage
    /\ logs = <<>>
    /\ detailsPanel = [active |-> FALSE, person |-> NULL]
    /\ searchPanel = FALSE
    /\ event = NoEvent
    /\ adminModal = FALSE
    /\ isAuthenticated = FALSE
    /\ generationCache = NoGenerations
    /\ elements = NotBuilt
    /\ hierarchy = NotBuilt

\* A file without a 'Full Name' column leaves person.name undefined (written NULL) in
\* every row. createPersonFromCSV calls generatePersonId before it looks at the name,
\* and for a row without an ID generatePersonId calls hashString(person.name), whose
\* str.length is a TypeError on undefined.
RowThrows(row) == row.name = NULL /\ (row.ID = Dash \/ row.ID = <<>>)

\* the first row at which the loop of convertCSVToJSON throws, 0 when none does
FirstThrowing(rows) ==
    IF \E i \in 1..Len(rows) : RowThrows(rows[i])
    THEN CHOOSE i \in 1..Len(rows) :
             RowThrows(rows[i]) /\ \A j \in 1..(i - 1) : ~RowThrows(rows[j])
    ELSE 0

\* the outcome of a call of convertCSVToJSON that threw: nothing is returned
ConversionThrown == [threw |-> TRUE]

\* dataConverter.convertCSVToJSON(csvData): the converter keeps the maps, the call
\* returns them as arrays (when a row throws, the rows before it have been added and
\* the passes after the loop have not run)
ConvertCSV(rows) ==
    LET thrower == FirstThrowing(rows)
        st == IF thrower = 0 THEN convertCSVToJSON(Converter, rows)
              ELSE ProcessRows(Converter, SubSeq(rows, 1, thrower - 1))
    IN /\ people' = st.people
       /\ aliases' = st.aliases
       /\ marriages' = st.marriages
       /\ calls' = Append(calls, [op |-> "convert", input |-> rows,
                                  result |-> IF thrower = 0 THEN ResultOf(st)
                                             ELSE ConversionThrown])
       /\ UNCHANGED <<data, initialized, ops>>
       /\ UNCHANGED viewVars
       /\ UNCHANGED pageVars

\* a conversion by a freshly constructed converter
Ingest == calls = <<>> /\ \E rows \in Inputs : ConvertCSV(rows)

Next == Ingest

Spec == Init /\ [][Next]_vars

\* ------------------------------------------------------------------------
\* The converter used again: further conversions and loadFromJSON
\* ------------------------------------------------------------------------
RowsAgain ==
    {Row(id, nm, nm, <<>>, <<>>, <<>>, <<>>, <<>>, <<>>, <<>>) :
        id \in {<<"1">>, <<"2">>}, nm \in {<<"a">>, <<"b">>}}

InputsAgain == SeqsUpTo(RowsAgain, MaxAgainRows)

\* data sets to load: what a converter exports after a conversion
JsonData == {ResultOf(convertCSVToJSON(NewConverter, rows)) : rows \in InputsAgain}

RECURSIVE SetAll(_, _)
SetAll(map, records) ==
    IF records = <<>> THEN map ELSE SetAll(MapSet(map, Head(records)), Tail(records))

\* loadFromJSON: the three maps are cleared and filled from the data
loadFromJSON(d) ==
    [people |-> SetAll(<<>>, d.people),
     aliases |-> d.aliases,
     marriages |-> SetAll(<<>>, d.marriages)]

LoadFromJSON ==
    /\ ~initialized
    /\ Len(calls) < MaxCalls
    /\ \E d \in JsonData :
          /\ people' = loadFromJSON(d).people
          /\ aliases' = loadFromJSON(d).aliases
          /\ marriages' = loadFromJSON(d).marriages
          /\ calls' = Append(calls, [op |-> "load", input |-> <<>>, result |-> d])
    /\ UNCHANGED <<data, initialized, ops>>
    /\ UNCHANGED viewVars
    /\ UNCHANGED pageVars

ConvertAgain ==
    /\ ~initialized
    /\ Len(calls) < MaxCalls
    /\ \E rows \in InputsAgain : ConvertCSV(rows)

NextAgain == ConvertAgain \/ LoadFromJSON

SpecAgain == Init /\ [][NextAgain]_vars

\* ------------------------------------------------------------------------
\* Conversion of files whose rows differ in names and birth years
\* ------------------------------------------------------------------------
IngestNames == calls = <<>> /\ \E rows \in InputsNames : ConvertCSV(rows)

NextNames == IngestNames

SpecNames == Init /\ [][NextNames]_vars

\* ------------------------------------------------------------------------
\* Conversions of files with odd rows: no usable name, no ID, an ID that is long or
\* not a number; a file has a 'Full Name' column (no name is NULL) or has none
\* ------------------------------------------------------------------------
MaxOddRows == 2

RowsOdd ==
    {Row(id, nm, Dash, <<>>, <<>>, <<>>, <<>>, <<>>, <<>>, <<>>) :
        id \in {<<>>, <<"7">>, <<"1", "2", "3", "4", "5", "6", "7">>, <<"A", "1">>},
        nm \in {NULL, <<>>, Dash, <<"a">>, <<"b">>}}

InputsOdd ==
    {rows \in SeqsUpTo(RowsOdd, MaxOddRows) :
        \/ \A i \in 1..Len(rows) : rows[i].name = NULL
        \/ \A i \in 1..Len(rows) : rows[i].name # NULL}

IngestOdd == calls = <<>> /\ \E rows \in InputsOdd : ConvertCSV(rows)

NextOdd == IngestOdd

SpecOdd == Init /\ [][NextOdd]_vars

\* ------------------------------------------------------------------------
\* The application: the converted data handed to the tree, and the AdminPanel operations
\* ------------------------------------------------------------------------
RowsAdmin ==
    {Row(id, <<"a">> \o id, <<"a">>, <<>>, <<>>, <<>>, <<>>, ref[1], <<>>, ref[2]) :
        id \in {<<"1">>, <<"2">>},
        ref \in {<<<<>>, <<>>>>, <<<<"1">>, <<"1", ",", "2">>>>}}

InputsAdmin == SeqsUpTo(RowsAdmin, MaxAdminRows)

IngestAdmin == calls = <<>> /\ \E rows \in InputsAdmin : ConvertCSV(rows)

\* new Map(data.people.map(p => [p.id, p])): the people of the tree by id
RECURSIVE PeopleMap(_, _)
PeopleMap(map, ppl) ==
    IF ppl = <<>> THEN map ELSE PeopleMap(MapSet(map, Head(ppl)), Tail(ppl))

\* p.fatherId || p.motherId
TreeParentId(p) == IF StrTruthy(p.fatherId) THEN p.fatherId ELSE p.motherId

\* the child is linked to that parent when the id is set and a key of personNodes
IsLinked(map, p) == StrTruthy(TreeParentId(p)) /\ TreeParentId(p) \in Ids(map)

\* the children array of the node of a person: the linked children, in map order
ChildrenOf(map, id) == SelectSeq(map, LAMBDA p : IsLinked(map, p) /\ TreeParentId(p) = id)

\* the nodes that are not a child of anyone
Roots(map) == SelectSeq(map, LAMBDA p : ~IsLinked(map, p))

VirtualRoot == <<"virtual-root">>

\* d3.hierarchy below some nodes: every node, then the nodes below its children
RECURSIVE Descendants(_, _)
Descendants(map, nodes) ==
    IF nodes = <<>> THEN <<>>
    ELSE <<Head(nodes).id>> \o Descendants(map, ChildrenOf(map, Head(nodes).id))
             \o Descendants(map, Tail(nodes))

\* buildHierarchy: the ids of the nodes of the hierarchy returned, under the single
\* root or under a virtual root
buildHierarchy(map) ==
    IF Len(Roots(map)) = 1 THEN Descendants(map, Roots(map))
    ELSE <<VirtualRoot>> \o Descendants(map, Roots(map))

\* FamilyTreeApp.init: the converted data becomes currentData and the data of the
\* tree, whose constructor builds its map of people from it and renders the hierarchy
InitializeApp ==
    /\ ~initialized
    /\ calls # <<>>
    /\ data' = calls[Len(calls)].result
    /\ treePeople' = PeopleMap(<<>>, calls[Len(calls)].result.people)
    /\ hierarchy' = [built |-> TRUE, threw |-> FALSE,
                     nodes |-> buildHierarchy(PeopleMap(<<>>, calls[Len(calls)].result.people))]
    /\ initialized' = TRUE
    /\ UNCHANGED <<people, aliases, marriages, calls, ops>>
    /\ UNCHANGED <<generationCache, elements>>
    /\ UNCHANGED <<localStorage, logs, detailsPanel, searchPanel, event, adminModal, isAuthenticated>>

CurrentYear == 2026
MinYear == 1500

\* getFormData: the trimmed name and the parsed years of the add-person form
getFormData(form) ==
    [name |-> Trim(form.name),
     altNames |-> Trim(form.altNames),
     birthYear |-> IF form.birthYear # <<>> THEN ParseInt(form.birthYear) ELSE NoYear,
     deathYear |-> IF form.deathYear # <<>> THEN ParseInt(form.deathYear) ELSE NoYear]

YearOutOfRange(y) == YearTruthy(y) /\ (y[1] < MinYear \/ y[1] > CurrentYear)

validateFormData(fd) ==
    /\ fd.name # <<>>
    /\ ~(YearTruthy(fd.birthYear) /\ YearTruthy(fd.deathYear) /\ fd.birthYear[1] > fd.deathYear[1])
    /\ ~YearOutOfRange(fd.birthYear)
    /\ ~YearOutOfRange(fd.deathYear)

RECURSIVE TrimAll(_)
TrimAll(parts) == IF parts = <<>> THEN <<>> ELSE <<Trim(Head(parts))>> \o TrimAll(Tail(parts))

\* AdminPanel.generatePersonId: 'P-' + Date.now() + a random number below 1000
AdminPersonId(now, random) == <<"P", "-">> \o now \o random

createPersonFromFormData(fd, personId) ==
    [id |-> personId,
     name |-> fd.name,
     altNames |-> IF fd.altNames # <<>> THEN TrimAll(SplitComma(fd.altNames)) ELSE <<>>,
     birthYear |-> fd.birthYear,
     deathYear |-> fd.deathYear,
     fatherId |-> NULL,
     motherId |-> NULL,
     spouseIds |-> <<>>]

\* what the add-person form is submitted with: the name field, and the year fields left
\* empty or holding a year in range, the year 0 or a year before 1500
Forms ==
    [name : {<<>>, <<"c">>}, altNames : {<<>>},
     birthYear : {<<>>, <<"1", "9", "0", "0">>, <<"0">>, <<"1", "4", "0", "0">>},
     deathYear : {<<>>, <<"1", "8", "0", "0">>}]

Clock == {<<"1", "7", "0", "0", "0", "0", "0", "0", "0", "0", "0", "0", "1">>}

Randoms == {<<"7">>, <<"4", "2">>}

\* handleAddPerson: a valid form adds a person to data.people. addPersonToTree then calls
\* familyTree.updateData, which FamilyTree2D does not define: the call throws a TypeError,
\* so the map of the tree is not rebuilt and saveData, the next statement, is never
\* reached (updatePerson and deletePerson end the same way)
AddPerson ==
    /\ initialized
    /\ ops < MaxOps
    /\ \E form \in Forms : \E now \in Clock : \E random \in Randoms :
          data' = IF validateFormData(getFormData(form))
                  THEN [data EXCEPT !.people =
                          Append(@, createPersonFromFormData(getFormData(form),
                                                             AdminPersonId(now, random)))]
                  ELSE data
    /\ ops' = ops + 1
    /\ UNCHANGED <<people, aliases, marriages, calls, initialized>>
    /\ UNCHANGED viewVars
    /\ UNCHANGED pageVars

\* {...person, ...updatedData}
Merge(person, updatedData) ==
    [f \in (DOMAIN person) \cup (DOMAIN updatedData) |->
        IF f \in DOMAIN updatedData THEN updatedData[f] ELSE person[f]]

\* people.findIndex(p => p.id === personId), 0 when there is none
FindIndex(ppl, personId) ==
    IF personId \in Ids(ppl)
    THEN CHOOSE i \in 1..Len(ppl) :
            ppl[i].id = personId /\ \A j \in 1..(i - 1) : ppl[j].id # personId
    ELSE 0

updatePerson(d, personId, updatedData) ==
    IF FindIndex(d.people, personId) = 0 THEN d
    ELSE [d EXCEPT !.people[FindIndex(d.people, personId)] = Merge(@, updatedData)]

UnknownId == <<"P", "-", "0", "0", "0", "0", "0", "9">>

\* the values updatePerson is called with: a new father, mother, spouse list or id
Updates(d) ==
    {[fatherId |-> x] : x \in Ids(d.people)}
        \cup {[motherId |-> x] : x \in {UnknownId}}
        \cup {[spouseIds |-> <<x>>] : x \in Ids(d.people)}
        \cup {[id |-> UnknownId]}

UpdatePerson ==
    /\ initialized
    /\ ops < MaxOps
    /\ \E personId \in Ids(data.people) \cup {UnknownId} : \E updatedData \in Updates(data) :
          data' = updatePerson(data, personId, updatedData)
    /\ ops' = ops + 1
    /\ UNCHANGED <<people, aliases, marriages, calls, initialized>>
    /\ UNCHANGED viewVars
    /\ UNCHANGED pageVars

RECURSIVE WithoutPerson(_, _)
WithoutPerson(ppl, personId) ==
    IF ppl = <<>> THEN <<>>
    ELSE IF Head(ppl).id = personId THEN WithoutPerson(Tail(ppl), personId)
    ELSE <<Head(ppl)>> \o WithoutPerson(Tail(ppl), personId)

RECURSIVE WithoutMarriagesOf(_, _)
WithoutMarriagesOf(ms, personId) ==
    IF ms = <<>> THEN <<>>
    ELSE IF Head(ms).spouse1Id = personId \/ Head(ms).spouse2Id = personId
         THEN WithoutMarriagesOf(Tail(ms), personId)
         ELSE <<Head(ms)>> \o WithoutMarriagesOf(Tail(ms), personId)

\* deletePerson, once confirmed: the person, its marriages, and the references to it in
\* the fatherId, motherId and spouseIds of the others go
deletePerson(d, personId) ==
    LET rest == WithoutPerson(d.people, personId)
    IN [d EXCEPT
          !.people = [i \in 1..Len(rest) |->
                        [rest[i] EXCEPT
                            !.fatherId = IF @ = personId THEN NULL ELSE @,
                            !.motherId = IF @ = personId THEN NULL ELSE @,
                            !.spouseIds = RemoveFromSeq(@, personId)]],
          !.marriages = WithoutMarriagesOf(d.marriages, personId)]

DeletePerson ==
    /\ initialized
    /\ ops < MaxOps
    /\ \E personId \in Ids(data.people) \cup {UnknownId} : \E confirmed \in BOOLEAN :
          data' = IF confirmed THEN deletePerson(data, personId) ELSE data
    /\ ops' = ops + 1
    /\ UNCHANGED <<people, aliases, marriages, calls, initialized>>
    /\ UNCHANGED viewVars
    /\ UNCHANGED pageVars

NextAdmin == IngestAdmin \/ InitializeApp \/ AddPerson \/ UpdatePerson \/ DeletePerson

SpecAdmin == Init /\ [][NextAdmin]_vars

\* ------------------------------------------------------------------------
\* Clicks: the handlers of a click, target first, then the document
\* ------------------------------------------------------------------------

\* FamilyTree2D.getPerson(id), NULL when the map has no such id
getPerson(map, id) ==
    IF id \in Ids(map) THEN map[CHOOSE i \in 1..Len(map) : map[i].id = id] ELSE NULL

\* the ids getPersonRelatives gives for the links of the details panel
RelativeIds(map, personId) ==
    LET person == getPerson(map, personId)
    IN IF personId \notin Ids(map) THEN {}
       ELSE ({person.fatherId, person.motherId} \cup Elems(person.spouseIds)
             \cup {map[i].id : i \in {j \in 1..Len(map) :
                       \/ map[j].fatherId = personId
                       \/ map[j].motherId = personId
                       \/ (person.fatherId # NULL /\ map[j].fatherId = person.fatherId)
                       \/ (person.motherId # NULL /\ map[j].motherId = person.motherId)}})
            \cap (Ids(map) \ {personId})

\* The page of the application is not among the sources; the elements are told apart
\* by the id the code looks them up with: the nodes of the tree are drawn inside
\* 'family-tree-2d', the links to relatives and the close button are inside
\* 'person-details-panel', the result items inside 'search-panel'. A click has one of
\* the targets "node", "person-link", "close-details", "search-btn", "search-result"
\* and "page".
\* personDetailsPanel.contains(event.target)
InDetailsPanel(target) == target \in {"person-link", "close-details"}

\* searchPanel.contains(event.target): hideSearchPanel empties the result list, so a
\* result item that was clicked is no longer in the panel when the document is reached
InSearchPanel(target) == FALSE

\* searchBtn.contains(event.target)
InSearchBtn(target) == target = "search-btn"

\* UIController.showPersonDetails(person)
showPersonDetails(personId) == [active |-> TRUE, person |-> personId]

\* UIController.hidePersonDetails(): the class goes, the content stays
hidePersonDetails(panel) == [panel EXCEPT !.active = FALSE]

\* the event leaves its target for the document
Bubbling(target, personId) == [target |-> target, person |-> personId, phase |-> "document"]

Idle == event.phase \in {"none", "done"}

\* the click handler of a node of the tree: onPersonSelected(d.data.person)
NodeClick ==
    /\ initialized /\ Idle
    /\ \E i \in 1..Len(treePeople) :
           /\ detailsPanel' = showPersonDetails(treePeople[i].id)
           /\ event' = Bubbling("node", treePeople[i].id)
    /\ UNCHANGED <<people, aliases, marriages, calls, data, initialized, ops>>
    /\ UNCHANGED viewVars
    /\ UNCHANGED <<treePeople, localStorage, logs, searchPanel, adminModal, isAuthenticated>>

\* the click handler of a link to a relative in the details panel
PersonLinkClick ==
    /\ initialized /\ Idle
    /\ detailsPanel.active
    /\ \E id \in RelativeIds(treePeople, detailsPanel.person) :
           /\ detailsPanel' = showPersonDetails(id)
           /\ event' = Bubbling("person-link", id)
    /\ UNCHANGED <<people, aliases, marriages, calls, data, initialized, ops>>
    /\ UNCHANGED viewVars
    /\ UNCHANGED <<treePeople, localStorage, logs, searchPanel, adminModal, isAuthenticated>>

\* the close button of the details panel: hidePersonDetails
CloseDetailsClick ==
    /\ initialized /\ Idle
    /\ detailsPanel.active
    /\ detailsPanel' = hidePersonDetails(detailsPanel)
    /\ event' = Bubbling("close-details", NULL)
    /\ UNCHANGED <<people, aliases, marriages, calls, data, initialized, ops>>
    /\ UNCHANGED viewVars
    /\ UNCHANGED <<treePeople, localStorage, logs, searchPanel, adminModal, isAuthenticated>>

\* the search button: toggleSearchPanel
SearchButtonClick ==
    /\ initialized /\ Idle
    /\ searchPanel' = ~searchPanel
    /\ event' = Bubbling("search-btn", NULL)
    /\ UNCHANGED <<people, aliases, marriages, calls, data, initialized, ops>>
    /\ UNCHANGED viewVars
    /\ UNCHANGED <<treePeople, localStorage, logs, detailsPanel, adminModal, isAuthenticated>>

\* a result item of the search panel: selectSearchResult(person.id) shows the person
\* and hides the search panel
SearchResultClick ==
    /\ initialized /\ Idle
    /\ searchPanel
    /\ \E i \in 1..Len(treePeople) :
           /\ detailsPanel' = showPersonDetails(treePeople[i].id)
           /\ event' = Bubbling("search-result", treePeople[i].id)
    /\ searchPanel' = FALSE
    /\ UNCHANGED <<people, aliases, marriages, calls, data, initialized, ops>>
    /\ UNCHANGED viewVars
    /\ UNCHANGED <<treePeople, localStorage, logs, adminModal, isAuthenticated>>

\* handleSearchKeydown with the Enter key on a highlighted result:
\* selectSearchResult(personId), and no click is dispatched
SearchEnterKey ==
    /\ initialized /\ Idle
    /\ searchPanel
    /\ \E i \in 1..Len(treePeople) : detailsPanel' = showPersonDetails(treePeople[i].id)
    /\ searchPanel' = FALSE
    /\ UNCHANGED <<people, aliases, marriages, calls, data, initialized, ops>>
    /\ UNCHANGED viewVars
    /\ UNCHANGED <<treePeople, localStorage, logs, event, adminModal, isAuthenticated>>

\* a click on the page outside every element with a handler of its own
PageClick ==
    /\ initialized /\ Idle
    /\ event' = Bubbling("page", NULL)
    /\ UNCHANGED <<people, aliases, marriages, calls, data, initialized, ops>>
    /\ UNCHANGED viewVars
    /\ UNCHANGED <<treePeople, localStorage, logs, detailsPanel, searchPanel, adminModal,
                   isAuthenticated>>

\* UIController.handleOutsideClick, the click listener of the document: the event has
\* bubbled up from its target
DocumentClick ==
    /\ event.phase = "document"
    /\ searchPanel' = IF /\ ~InSearchPanel(event.target)
                         /\ ~InSearchBtn(event.target)
                         /\ searchPanel
                      THEN FALSE ELSE searchPanel
    /\ detailsPanel' = IF ~InDetailsPanel(event.target) /\ detailsPanel.active
                       THEN hidePersonDetails(detailsPanel) ELSE detailsPanel
    /\ event' = [event EXCEPT !.phase = "done"]
    /\ UNCHANGED <<people, aliases, marriages, calls, data, initialized, ops>>
    /\ UNCHANGED viewVars
    /\ UNCHANGED <<treePeople, localStorage, logs, adminModal, isAuthenticated>>

NextClick ==
    \/ IngestAdmin \/ InitializeApp
    \/ NodeClick \/ PersonLinkClick \/ CloseDetailsClick
    \/ SearchButtonClick \/ SearchResultClick \/ SearchEnterKey \/ PageClick
    \/ DocumentClick

SpecClick == Init /\ [][NextClick]_vars

\* ------------------------------------------------------------------------
\* The admin modal: login prompt, modal, logout
\* ------------------------------------------------------------------------
MaxGateOps == 3

\* the password showLoginPrompt compares the answer of the prompt with
AdminPassword == <<"a", "d", "m", "i", "n", "1", "2", "3">>

\* what prompt() may return: null when it is cancelled, else the text typed
PromptAnswers ==
    {NULL, <<>>, AdminPassword, <<"a", "d", "m", "i", "n">>,
     <<"A", "d", "m", "i", "n", "1", "2", "3">>}

\* the login flag and the class 'active' of the modal
Gate == [isAuthenticated |-> isAuthenticated, adminModal |-> adminModal]

\* showLoginPrompt: the right password logs in and shows the panel (showAdminPanel,
\* now authenticated); anything else changes nothing
showLoginPrompt(gate, password) ==
    IF password = AdminPassword
    THEN [isAuthenticated |-> TRUE, adminModal |-> TRUE]
    ELSE gate

\* showAdminPanel without the test of isAuthenticated
showAdminPanel_NoGate(gate, password) == [gate EXCEPT !.adminModal = TRUE]

\* showAdminPanel: the login prompt when not authenticated, else the modal is shown
showAdminPanel(gate, password) ==
    IF ~gate.isAuthenticated THEN showLoginPrompt(gate, password)
    ELSE [gate EXCEPT !.adminModal = TRUE]

\* the click handler of the admin button; the answer is what the user gives the
\* prompt if one is shown
ShowAdminPanel ==
    /\ Len(calls) < MaxGateOps
    /\ \E password \in PromptAnswers :
           /\ isAuthenticated' = showAdminPanel(Gate, password).isAuthenticated
           /\ adminModal' = showAdminPanel(Gate, password).adminModal
           /\ calls' = Append(calls, [op |-> "showAdminPanel",
                                      input |-> IF isAuthenticated THEN NULL ELSE password,
                                      result |-> showAdminPanel(Gate, password)])
    /\ UNCHANGED <<people, aliases, marriages, data, initialized, ops>>
    /\ UNCHANGED viewVars
    /\ UNCHANGED <<treePeople, localStorage, logs, detailsPanel, searchPanel, event>>

\* hideAdminPanel: the close button, a click on the backdrop of the modal, Escape
HideAdminPanel ==
    /\ Len(calls) < MaxGateOps
    /\ adminModal' = FALSE
    /\ calls' = Append(calls, [op |-> "hideAdminPanel", input |-> NULL,
                               result |-> [Gate EXCEPT !.adminModal = FALSE]])
    /\ UNCHANGED <<people, aliases, marriages, data, initialized, ops>>
    /\ UNCHANGED viewVars
    /\ UNCHANGED <<treePeople, localStorage, logs, detailsPanel, searchPanel, event,
                   isAuthenticated>>

\* logout
Logout ==
    /\ Len(calls) < MaxGateOps
    /\ isAuthenticated' = FALSE
    /\ adminModal' = FALSE
    /\ calls' = Append(calls, [op |-> "logout", input |-> NULL,
                               result |-> [isAuthenticated |-> FALSE, adminModal |-> FALSE]])
    /\ UNCHANGED <<people, aliases, marriages, data, initialized, ops>>
    /\ UNCHANGED viewVars
    /\ UNCHANGED <<treePeople, localStorage, logs, detailsPanel, searchPanel, event>>

NextGate == ShowAdminPanel \/ HideAdminPanel \/ Logout

SpecGate == Init /\ [][NextGate]_vars

\* ------------------------------------------------------------------------
\* FamilyTreeApp.loadInitialData: the CSV file, else the saved data, else the sample
\* ------------------------------------------------------------------------

\* createSampleData (without gender, sourceRefs and metadata, which the model of a
\* person does not carry)
createSampleData ==
    [people |->
        <<[id |-> <<"P", "-", "0", "0", "0", "0", "0", "1">>, name |-> <<"D", "a", "w", "o", "o", "d", " ", "S", "o", "l", "i", "m", "a", "n">>,
          altNames |-> <<<<"D", "a", "w", "o", "o", "d">>>>, birthYear |-> <<1750>>, deathYear |-> <<1824>>,
          fatherId |-> NULL, motherId |-> NULL, spouseIds |-> <<>>],
          [id |-> <<"P", "-", "0", "0", "0", "0", "0", "2">>, name |-> <<"S", "o", "l", "i", "m", "a", "n", " ", "D", "a", "w", "o", "o", "d">>,
          altNames |-> <<<<"S", "o", "l", "i", "m", "a", "n">>>>, birthYear |-> <<1820>>, deathYear |-> <<1895>>,
          fatherId |-> <<"P", "-", "0", "0", "0", "0", "0", "1">>, motherId |-> NULL, spouseIds |-> <<<<"P", "-", "0", "0", "0", "0", "0", "3">>, <<"P", "-", "0", "0", "0", "0", "0", "4">>>>],
          [id |-> <<"P", "-", "0", "0", "0", "0", "0", "3">>, name |-> <<"F", "i", "r", "s", "t", " ", "W", "i", "f", "e">>,
          altNames |-> <<>>, birthYear |-> NoYear, deathYear |-> NoYear,
          fatherId |-> NULL, motherId |-> NULL, spouseIds |-> <<<<"P", "-", "0", "0", "0", "0", "0", "2">>>>],
          [id |-> <<"P", "-", "0", "0", "0", "0", "0", "4">>, name |-> <<"M", "a", "k", "h", "d", "o", "u", "m", "a", "h">>,
          altNames |-> <<>>, birthYear |-> NoYear, deathYear |-> NoYear,
          fatherId |-> NULL, motherId |-> NULL, spouseIds |-> <<<<"P", "-", "0", "0", "0", "0", "0", "2">>>>]>>,
     aliases |-> NoAliases,
     marriages |->
        <<[id |-> <<"M", "-", "P", "-", "0", "0", "0", "0", "0", "2", "_", "P", "-", "0", "0", "0", "0", "0", "3">>,
           spouse1Id |-> <<"P", "-", "0", "0", "0", "0", "0", "2">>, spouse2Id |-> <<"P", "-", "0", "0", "0", "0", "0", "3">>, children |-> <<>>],
          [id |-> <<"M", "-", "P", "-", "0", "0", "0", "0", "0", "2", "_", "P", "-", "0", "0", "0", "0", "0", "4">>,
           spouse1Id |-> <<"P", "-", "0", "0", "0", "0", "0", "2">>, spouse2Id |-> <<"P", "-", "0", "0", "0", "0", "0", "4">>, children |-> <<>>]>>]

\* the value null and the object {} as values of currentData: neither has people
JsonNull == [null |-> TRUE]
EmptyObject == [f \in {} |-> f]

\* what an earlier visit may have left under 'familyTreeData'
SavedTexts ==
    {NoItem, EmptyText, NotJson,
     JSONstringify(createSampleData), JSONstringify(NoData),
     JSONstringify(JsonNull), JSONstringify(EmptyObject)}

\* the page loads with some text saved by an earlier visit
InitLoad ==
    /\ people = <<>>
    /\ aliases = NoAliases
    /\ marriages = <<>>
    /\ calls = <<>>
    /\ data = JsonNull
    /\ initialized = FALSE
    /\ ops = 0
    /\ treePeople = <<>>
    /\ localStorage \in {[EmptyStorage EXCEPT !.familyTreeData = text] : text \in SavedTexts}
    /\ logs = <<>>
    /\ detailsPanel = [active |-> FALSE, person |-> NULL]
    /\ searchPanel = FALSE
    /\ event = NoEvent
    /\ adminModal = FALSE
    /\ isAuthenticated = FALSE
    /\ generationCache = NoGenerations
    /\ elements = NotBuilt
    /\ hierarchy = NotBuilt

\* what loadCSVData meets: the file with its rows, an empty file, a response that is
\* not ok, or a fetch that rejects
Fetches ==
    {[kind |-> "file", rows |-> rows] : rows \in InputsOdd}
        \cup {[kind |-> k, rows |-> <<>>] : k \in {"empty", "status", "rejected"}}

\* loadCSVData: the text of the file when the response is ok, else null
loadCSVData(fetch) == IF fetch.kind \in {"file", "empty"} THEN fetch ELSE [kind |-> "null", rows |-> <<>>]

\* the body of the try block of loadInitialData after the CSV did not load, on the
\* saved text
FromSavedData(saved) ==
    IF TextTruthy(saved)
    THEN (IF saved.kind = "garbage" THEN createSampleData ELSE saved.value)
    ELSE createSampleData

\* loadInitialData: currentData from the CSV file when loadCSVData gives a non-empty
\* text, from the saved text when there is one, else the sample; any exception gives
\* the sample
LoadInitialData ==
    /\ calls = <<>>
    /\ \E fetch \in Fetches :
         LET csvData == loadCSVData(fetch)
             thrower == FirstThrowing(csvData.rows)
             st == IF csvData.kind # "file" THEN Converter
                   ELSE IF thrower = 0 THEN convertCSVToJSON(Converter, csvData.rows)
                   ELSE ProcessRows(Converter, SubSeq(csvData.rows, 1, thrower - 1))
             currentData == IF csvData.kind = "file"
                            THEN (IF thrower = 0 THEN ResultOf(st) ELSE createSampleData)
                            ELSE FromSavedData(localStorage.familyTreeData)
         IN /\ people' = st.people
            /\ aliases' = st.aliases
            /\ marriages' = st.marriages
            /\ data' = currentData
            /\ calls' = <<[op |-> "loadInitialData", input |-> fetch, result |-> currentData]>>
    /\ UNCHANGED <<initialized, ops>>
    /\ UNCHANGED viewVars
    /\ UNCHANGED pageVars

NextLoad == LoadInitialData

SpecLoad == InitLoad /\ [][NextLoad]_vars

\* ------------------------------------------------------------------------
\* FamilyTreeGL: the generations of the people
\* ------------------------------------------------------------------------

\* the depth of nested calls at which the engine throws a RangeError ('Maximum call
\* stack size exceeded')
MaxCallStack == 8

\* generationCache[id] = gen
CacheSet(cache, id, gen) ==
    [k \in (DOMAIN cache) \cup {id} |-> IF k = id THEN gen ELSE cache[k]]

\* the person the map holds under the id
PersonOf(map, id) == map[CHOOSE i \in 1..Len(map) : map[i].id = id]

\* computeGeneration(id), called at the given depth of the call stack with the cache as
\* it is: the value returned and the cache afterwards, or the RangeError thrown
RECURSIVE computeGeneration(_, _, _, _)
computeGeneration(cache, map, id, depth) ==
    IF depth > MaxCallStack THEN [threw |-> TRUE, value |-> 0, cache |-> cache]
    ELSE IF id \in DOMAIN cache THEN [threw |-> FALSE, value |-> cache[id], cache |-> cache]
    ELSE IF id \notin Ids(map) THEN [threw |-> FALSE, value |-> 0, cache |-> cache]
    ELSE LET p == PersonOf(map, id)
             father == IF StrTruthy(p.fatherId)
                       THEN computeGeneration(cache, map, p.fatherId, depth + 1)
                       ELSE [threw |-> FALSE, value |-> -1, cache |-> cache]
         IN IF father.threw THEN father
            ELSE LET mother == IF StrTruthy(p.motherId)
                               THEN computeGeneration(father.cache, map, p.motherId, depth + 1)
                               ELSE [threw |-> FALSE, value |-> -1, cache |-> father.cache]
                 IN IF mother.threw THEN mother
                    ELSE LET gen == Max(father.value + 1, mother.value + 1)
                         IN [threw |-> FALSE, value |-> gen,
                             cache |-> CacheSet(mother.cache, id, gen)]

\* the loop of buildElements over data.people, as far as the generations go: one node
\* with id and generation for every person (the edges pushed along are left out)
RECURSIVE buildElements(_, _, _, _)
buildElements(cache, map, ppl, nodes) ==
    IF ppl = <<>> THEN [threw |-> FALSE, nodes |-> nodes, cache |-> cache]
    ELSE LET gen == computeGeneration(cache, map, Head(ppl).id, 1)
         IN IF gen.threw THEN [threw |-> TRUE, nodes |-> nodes, cache |-> gen.cache]
            ELSE buildElements(gen.cache, map, Tail(ppl),
                               Append(nodes, [id |-> Head(ppl).id, generation |-> gen.value]))

\* new FamilyTreeGL(containerId, data) on the converted data: the constructor builds the
\* people map, starts with an empty cache and calls buildElements
BuildElements ==
    /\ calls # <<>>
    /\ ~elements.built
    /\ LET ppl == calls[Len(calls)].result.people
           built == buildElements(NoGenerations, PeopleMap(<<>>, ppl), ppl, <<>>)
       IN /\ elements' = [built |-> TRUE, threw |-> built.threw, nodes |-> built.nodes]
          /\ generationCache' = built.cache
    /\ UNCHANGED <<people, aliases, marriages, calls, data, initialized, ops, hierarchy>>
    /\ UNCHANGED pageVars

NextGL == Ingest \/ BuildElements

SpecGL == Init /\ [][NextGL]_vars

\* ------------------------------------------------------------------------
\* FamilyTree2D on converted files whose rows refer to each other
\* ------------------------------------------------------------------------
NextTree == Ingest \/ InitializeApp

SpecTree == Init /\ [][NextTree]_vars

\* ------------------------------------------------------------------------
\* The logger: the in-memory log and its copy under 'ft_logs'
\* ------------------------------------------------------------------------
MaxLogCalls == 4

LogLimit == 1000

Levels == {"log", "info", "warn", "error"}

\* format(level, args): the entry of a call, with the time of the call
format(level, time) == [time |-> time, level |-> level]

\* logs.slice(-n)
SliceLast(seq, n) == SubSeq(seq, Max(1, Len(seq) - n + 1), Len(seq))

\* persist without the slice
persist_WholeLog(lg) == JSONstringify(lg)

\* persist: the last 1000 entries are written under 'ft_logs' (the write succeeds)
persist(lg) == JSONstringify(SliceLast(lg, LogLimit))

\* the entries an earlier page load has left under 'ft_logs'
StoredLog(n) == [i \in 1..n |-> format("log", i - n)]

\* the script starts with what is stored under 'ft_logs': nothing, or the array a
\* persist of an earlier page load wrote
InitLog ==
    /\ people = <<>>
    /\ aliases = NoAliases
    /\ marriages = <<>>
    /\ calls = <<>>
    /\ data = NoData
    /\ initialized = FALSE
    /\ ops = 0
    /\ treePeople = <<>>
    /\ \E n \in {0, LogLimit - 1, LogLimit} : \E stored \in BOOLEAN :
          /\ (n > 0) => stored
          /\ localStorage = [EmptyStorage EXCEPT
                                !.ft_logs = IF stored THEN JSONstringify(StoredLog(n)) ELSE NoItem]
          /\ logs = StoredLog(n)
    /\ detailsPanel = [active |-> FALSE, person |-> NULL]
    /\ searchPanel = FALSE
    /\ event = NoEvent
    /\ adminModal = FALSE
    /\ isAuthenticated = FALSE
    /\ generationCache = NoGenerations
    /\ elements = NotBuilt
    /\ hierarchy = NotBuilt

\* console.log, console.info, console.warn, console.error: the entry is pushed, then
\* the log is persisted
ConsoleCall ==
    /\ ops < MaxLogCalls
    /\ \E level \in Levels :
          /\ logs' = Append(logs, format(level, ops + 1))
          /\ localStorage' = [localStorage EXCEPT
                                 !.ft_logs = persist(Append(logs, format(level, ops + 1)))]
          /\ calls' = Append(calls, [op |-> level, input |-> ops + 1, result |-> NULL])
    /\ ops' = ops + 1
    /\ UNCHANGED <<people, aliases, marriages, data, initialized>>
    /\ UNCHANGED viewVars
    /\ UNCHANGED <<treePeople, detailsPanel, searchPanel, event, adminModal, isAuthenticated>>

\* FTLogger.clear: the log is emptied, then persisted
ClearLogs ==
    /\ ops < MaxLogCalls
    /\ logs' = <<>>
    /\ localStorage' = [localStorage EXCEPT !.ft_logs = persist(<<>>)]
    /\ calls' = Append(calls, [op |-> "clear", input |-> NULL, result |-> NULL])
    /\ ops' = ops + 1
    /\ UNCHANGED <<people, aliases, marriages, data, initialized>>
    /\ UNCHANGED viewVars
    /\ UNCHANGED <<treePeople, detailsPanel, searchPanel, event, adminModal, isAuthenticated>>

NextLog == ConsoleCall \/ ClearLogs

SpecLog == InitLog /\ [][NextLog]_vars

\* ------------------------------------------------------------------------
\* CognitiveSearch: text primitives
\* ------------------------------------------------------------------------

\* An Arabic letter is written as the name of its code point; the letters are those of
\* the dictionary, of the transliteration maps and of normalizeText, all of them in
\* the block U+0600..U+06FF.
ArabicLetters ==
    {"HAMZA", "ALEF_MADDA_ABOVE", "ALEF_HAMZA_ABOVE", "WAW_HAMZA_ABOVE", "ALEF_HAMZA_BELOW",
     "YEH_HAMZA_ABOVE", "ALEF", "BEH", "TEH_MARBUTA", "TEH", "THEH", "JEEM", "HAH", "KHAH",
     "DAL", "THAL", "REH", "ZAIN", "SEEN", "SHEEN", "SAD", "DAD", "TAH", "AIN", "GHAIN",
     "FEH", "QAF", "KAF", "LAM", "MEEM", "NOON", "HEH", "WAW", "ALEF_MAKSURA", "YEH"}

\* isArabic: the text holds a character of the Arabic blocks
isArabic(text) == \E i \in 1..Len(text) : text[i] \in ArabicLetters

\* the characters /\s/ matches
WhiteSpace == {" "}

\* the replacements of normalizeText on one character, before the white space is handled
FoldChar(c) ==
    IF c \in {"ALEF_HAMZA_ABOVE", "ALEF_HAMZA_BELOW", "ALEF_MADDA_ABOVE"} THEN "ALEF"
    ELSE IF c = "ALEF_MAKSURA" THEN "YEH"
    ELSE IF c = "TEH_MARBUTA" THEN "HEH"
    ELSE IF c \in {"WAW_HAMZA_ABOVE", "YEH_HAMZA_ABOVE"} THEN "WAW"
    ELSE c

RECURSIVE FoldLetters(_)
FoldLetters(s) ==
    IF s = <<>> THEN <<>>
    ELSE IF Head(s) = "HAMZA" THEN FoldLetters(Tail(s))
    ELSE <<FoldChar(Head(s))>> \o FoldLetters(Tail(s))

\* replace(/\s+/g, ' ')
RECURSIVE CollapseSpaces(_)
CollapseSpaces(s) ==
    IF s = <<>> THEN <<>>
    ELSE IF Head(s) \in WhiteSpace
         THEN IF Len(s) > 1 /\ s[2] \in WhiteSpace THEN CollapseSpaces(Tail(s))
              ELSE <<" ">> \o CollapseSpaces(Tail(s))
         ELSE <<Head(s)>> \o CollapseSpaces(Tail(s))

\* the same replacements with the white space collapsed before the hamza is removed
normalizeText_SpacesFirst(text) == Trim(FoldLetters(CollapseSpaces(text)))

normalizeText(text) == Trim(CollapseSpaces(FoldLetters(text)))

Min3(a, b, c) == IF a <= b /\ a <= c THEN a ELSE IF b <= c THEN b ELSE c

\* one row of the matrix of levenshteinDistance: row i from row i - 1, for the character
\* ch of str2; j runs over the columns, left is matrix[i][j - 1]
RECURSIVE LevRow(_, _, _, _, _)
LevRow(prev, ch, str1, j, row) ==
    IF j > Len(str1) THEN row
    ELSE LevRow(prev, ch, str1, j + 1,
                Append(row, IF ch = str1[j] THEN prev[j]
                            ELSE Min3(prev[j] + 1, row[j] + 1, prev[j + 1] + 1)))

RECURSIVE LevRows(_, _, _, _)
LevRows(prev, str1, str2, i) ==
    IF i > Len(str2) THEN prev
    ELSE LevRows(LevRow(prev, str2[i], str1, 1, <<i>>), str1, str2, i + 1)

levenshteinDistance(str1, str2) ==
    LevRows([j \in 1..(Len(str1) + 1) |-> j - 1], str1, str2, 1)[Len(str1) + 1]

\* A score is the exact rational <<numerator, denominator>> in lowest terms.
RECURSIVE Gcd(_, _)
Gcd(a, b) == IF b = 0 THEN a ELSE Gcd(b, a % b)

Rat(n, d) == IF n = 0 THEN <<0, 1>> ELSE <<n \div Gcd(n, d), d \div Gcd(n, d)>>

RatLess(x, y) == x[1] * y[2] < y[1] * x[2]

RatMax(x, y) == IF RatLess(x, y) THEN y ELSE x

RatTimes(x, y) == Rat(x[1] * y[1], x[2] * y[2])

Zero == Rat(0, 1)

\* getTextSimilarity: 1 - distance / maxLength
getTextSimilarity(str1, str2) ==
    IF str1 = str2 THEN Rat(1, 1)
    ELSE IF Len(str1) = 0 THEN Zero
    ELSE IF Len(str2) = 0 THEN Zero
    ELSE Rat(Max(Len(str1), Len(str2)) - levenshteinDistance(str1, str2),
             Max(Len(str1), Len(str2)))

\* the dictionary of the constructor, in the order of its entries
arabicToEnglish ==
    <<[arabic |-> <<"ALEF_HAMZA_ABOVE", "HAH", "MEEM", "DAL">>,
      english |-> <<<<"a", "h", "m", "e", "d">>,
                    <<"a", "h", "m", "a", "d">>,
                    <<"a", "h", "m", "e", "t">>>>],
     [arabic |-> <<"MEEM", "HAH", "MEEM", "DAL">>,
      english |-> <<<<"m", "o", "h", "a", "m", "m", "e", "d">>,
                    <<"m", "u", "h", "a", "m", "m", "a", "d">>,
                    <<"m", "o", "h", "a", "m", "e", "d">>,
                    <<"m", "o", "h", "a", "m", "m", "a", "d">>>>],
     [arabic |-> <<"AIN", "LAM", "YEH">>,
      english |-> <<<<"a", "l", "i">>,
                    <<"a", "l", "y">>>>],
     [arabic |-> <<"HAH", "SEEN", "NOON">>,
      english |-> <<<<"h", "a", "s", "s", "a", "n">>,
                    <<"h", "a", "s", "a", "n">>>>],
     [arabic |-> <<"HAH", "SEEN", "YEH", "NOON">>,
      english |-> <<<<"h", "u", "s", "s", "e", "i", "n">>,
                    <<"h", "u", "s", "a", "i", "n">>,
                    <<"h", "u", "s", "a", "y", "n">>>>],
     [arabic |-> <<"AIN", "BEH", "DAL", "ALEF", "LAM", "LAM", "HEH">>,
      english |-> <<<<"a", "b", "d", "u", "l", "l", "a", "h">>,
                    <<"a", "b", "d", "a", "l", "l", "a", "h">>,
                    <<"a", "b", "d", " ", "a", "l", "l", "a", "h">>>>],
     [arabic |-> <<"AIN", "BEH", "DAL", "ALEF", "LAM", "REH", "HAH", "MEEM", "NOON">>,
      english |-> <<<<"a", "b", "d", "u", "l", "r", "a", "h", "m", "a", "n">>,
                    <<"a", "b", "d", "u", "r", "r", "a", "h", "m", "a", "n">>,
                    <<"a", "b", "d", " ", "a", "l", " ", "r", "a", "h", "m", "a", "n">>>>],
     [arabic |-> <<"AIN", "BEH", "DAL", "ALEF", "LAM", "AIN", "ZAIN", "YEH", "ZAIN">>,
      english |-> <<<<"a", "b", "d", "u", "l", "a", "z", "i", "z">>,
                    <<"a", "b", "d", "u", "l", " ", "a", "z", "i", "z">>,
                    <<"a", "b", "d", " ", "a", "l", " ", "a", "z", "i", "z">>>>],
     [arabic |-> <<"FEH", "ALEF", "TAH", "MEEM", "TEH_MARBUTA">>,
      english |-> <<<<"f", "a", "t", "i", "m", "a">>,
                    <<"f", "a", "t", "i", "m", "a", "h">>,
                    <<"f", "a", "t", "m", "a">>>>],
     [arabic |-> <<"AIN", "ALEF", "YEH_HAMZA_ABOVE", "SHEEN", "TEH_MARBUTA">>,
      english |-> <<<<"a", "i", "s", "h", "a">>,
                    <<"a", "i", "s", "h", "a", "h">>,
                    <<"a", "y", "e", "s", "h", "a">>>>],
     [arabic |-> <<"KHAH", "DAL", "YEH", "JEEM", "TEH_MARBUTA">>,
      english |-> <<<<"k", "h", "a", "d", "i", "j", "a">>,
                    <<"k", "h", "a", "d", "i", "j", "a", "h">>,
                    <<"k", "h", "a", "d", "i", "g", "a">>>>],
     [arabic |-> <<"MEEM", "REH", "YEH", "MEEM">>,
      english |-> <<<<"m", "a", "r", "y", "a", "m">>,
                    <<"m", "a", "r", "y">>,
                    <<"m", "a", "r", "i", "a", "m">>>>],
     [arabic |-> <<"ZAIN", "YEH", "NOON", "BEH">>,
      english |-> <<<<"z", "a", "i", "n", "a", "b">>,
                    <<"z", "a", "y", "n", "a", "b">>,
                    <<"z", "e", "i", "n", "a", "b">>>>],
     [arabic |-> <<"SEEN", "ALEF", "REH", "TEH_MARBUTA">>,
      english |-> <<<<"s", "a", "r", "a">>,
                    <<"s", "a", "r", "a", "h">>>>],
     [arabic |-> <<"NOON", "WAW", "REH">>,
      english |-> <<<<"n", "o", "o", "r">>,
                    <<"n", "u", "r">>,
                    <<"n", "o", "u", "r">>>>],
     [arabic |-> <<"SEEN", "LAM", "YEH", "MEEM", "ALEF", "NOON">>,
      english |-> <<<<"s", "o", "l", "i", "m", "a", "n">>,
                    <<"s", "u", "l", "a", "i", "m", "a", "n">>,
                    <<"s", "u", "l", "e", "i", "m", "a", "n">>>>],
     [arabic |-> <<"DAL", "ALEF", "WAW", "DAL">>,
      english |-> <<<<"d", "a", "w", "o", "o", "d">>,
                    <<"d", "a", "w", "u", "d">>,
                    <<"d", "a", "v", "i", "d">>>>],
     [arabic |-> <<"ALEF_HAMZA_BELOW", "BEH", "REH", "ALEF", "HEH", "YEH", "MEEM">>,
      english |-> <<<<"i", "b", "r", "a", "h", "i", "m">>,
                    <<"i", "b", "r", "a", "h", "e", "e", "m">>,
                    <<"a", "b", "r", "a", "h", "a", "m">>>>],
     [arabic |-> <<"ALEF_HAMZA_BELOW", "SEEN", "MEEM", "ALEF", "AIN", "YEH", "LAM">>,
      english |-> <<<<"i", "s", "m", "a", "i", "l">>,
                    <<"i", "s", "m", "a", "e", "l">>>>],
     [arabic |-> <<"YEH", "WAW", "SEEN", "FEH">>,
      english |-> <<<<"y", "u", "s", "u", "f">>,
                    <<"y", "o", "u", "s", "e", "f">>,
                    <<"j", "o", "s", "e", "p", "h">>>>],
     [arabic |-> <<"AIN", "MEEM", "REH">>,
      english |-> <<<<"o", "m", "a", "r">>,
                    <<"u", "m", "a", "r">>,
                    <<"o", "m", "e", "r">>>>],
     [arabic |-> <<"AIN", "THEH", "MEEM", "ALEF", "NOON">>,
      english |-> <<<<"o", "t", "h", "m", "a", "n">>,
                    <<"u", "t", "h", "m", "a", "n">>,
                    <<"o", "s", "m", "a", "n">>>>],
     [arabic |-> <<"ALEF_HAMZA_ABOVE", "SHEEN", "REH", "FEH">>,
      english |-> <<<<"a", "s", "h", "r", "a", "f">>,
                    <<"a", "s", "h", "r", "a", "a", "f">>,
                    <<"a", "s", "h", "r", "a", "f", "f">>>>],
     [arabic |-> <<"AIN", "BEH", "DAL", "ALEF", "LAM", "LAM", "TAH", "YEH", "FEH">>,
      english |-> <<<<"a", "b", "d", "u", "l", "l", "a", "t", "i", "f">>,
                    <<"a", "b", "d", "u", "l", " ", "l", "a", "t", "i", "f">>>>],
     [arabic |-> <<"AIN", "BEH", "DAL", "ALEF", "LAM", "SEEN", "LAM", "ALEF", "MEEM">>,
      english |-> <<<<"a", "b", "d", "u", "l", "s", "a", "l", "a", "m">>,
                    <<"a", "b", "d", "u", "l", " ", "s", "a", "l", "a", "m">>>>],
     [arabic |-> <<"AIN", "BEH", "DAL", "ALEF", "LAM", "GHAIN", "NOON", "YEH">>,
      english |-> <<<<"a", "b", "d", "u", "l", "g", "h", "a", "n", "i">>,
                    <<"a", "b", "d", "u", "l", " ", "g", "h", "a", "n", "i">>>>],
     [arabic |-> <<"AIN", "BEH", "DAL", "ALEF", "LAM", "WAW", "HEH", "ALEF", "BEH">>,
      english |-> <<<<"a", "b", "d", "u", "l", "w", "a", "h", "a", "b">>,
                    <<"a", "b", "d", "u", "l", " ", "w", "a", "h", "a", "b">>>>],
     [arabic |-> <<"AIN", "BEH", "DAL", "ALEF", "LAM", "MEEM", "NOON", "AIN", "MEEM">>,
      english |-> <<<<"a", "b", "d", "u", "l", "m", "u", "n", "i", "m">>,
                    <<"a", "b", "d", "u", "l", " ", "m", "u", "n", "i", "m">>>>],
     [arabic |-> <<"AIN", "BEH", "DAL", "ALEF", "LAM", "MEEM", "JEEM", "YEH", "DAL">>,
      english |-> <<<<"a", "b", "d", "u", "l", "m", "a", "j", "i", "d">>,
                    <<"a", "b", "d", "u", "l", " ", "m", "a", "j", "i", "d">>>>],
     [arabic |-> <<"AIN", "BEH", "DAL", "ALEF", "LAM", "FEH", "TEH", "ALEF", "HAH">>,
      english |-> <<<<"a", "b", "d", "u", "l", "f", "a", "t", "t", "a", "h">>,
                    <<"a", "b", "d", "u", "l", " ", "f", "a", "t", "t", "a", "h">>>>],
     [arabic |-> <<"AIN", "BEH", "DAL", "ALEF", "LAM", "REH", "ZAIN", "ALEF", "QAF">>,
      english |-> <<<<"a", "b", "d", "u", "l", "r", "a", "z", "z", "a", "q">>,
                    <<"a", "b", "d", "u", "l", " ", "r", "a", "z", "z", "a", "q">>>>],
     [arabic |-> <<"AIN", "BEH", "DAL", "ALEF", "LAM", "SEEN", "TEH", "ALEF", "REH">>,
      english |-> <<<<"a", "b", "d", "u", "l", "s", "a", "t", "t", "a", "r">>,
                    <<"a", "b", "d", "u", "l", " ", "s", "a", "t", "t", "a", "r">>>>],
     [arabic |-> <<"AIN", "BEH", "DAL", "ALEF", "LAM", "GHAIN", "FEH", "ALEF", "REH">>,
      english |-> <<<<"a", "b", "d", "u", "l", "g", "h", "a", "f", "f", "a", "r">>,
                    <<"a", "b", "d", "u", "l", " ", "g", "h", "a", "f", "f", "a", "r">>>>],
     [arabic |-> <<"AIN", "BEH", "DAL", "ALEF", "LAM", "REH", "HAH", "YEH", "MEEM">>,
      english |-> <<<<"a", "b", "d", "u", "l", "r", "a", "h", "i", "m">>,
                    <<"a", "b", "d", "u", "l", " ", "r", "a", "h", "i", "m">>>>],
     [arabic |-> <<"AIN", "BEH", "DAL", "ALEF", "LAM", "KHAH", "ALEF", "LAM", "QAF">>,
      english |-> <<<<"a", "b", "d", "u", "l", "k", "h", "a", "l", "i", "q">>,
                    <<"a", "b", "d", "u", "l", " ", "k", "h", "a", "l", "i", "q">>>>],
     [arabic |-> <<"AIN", "BEH", "DAL", "ALEF", "LAM", "WAW", "ALEF", "HAH", "DAL">>,
      english |-> <<<<"a", "b", "d", "u", "l", "w", "a", "h", "i", "d">>,
                    <<"a", "b", "d", "u", "l", " ", "w", "a", "h", "i", "d">>>>],
     [arabic |-> <<"AIN", "BEH", "DAL", "ALEF", "LAM", "REH", "WAW_HAMZA_ABOVE", "WAW", "FEH">>,
      english |-> <<<<"a", "b", "d", "u", "l", "r", "a", "u", "f">>,
                    <<"a", "b", "d", "u", "l", " ", "r", "a", "u", "f">>>>]>>

\* the entries of arabicToEnglish[name], <<>> when the name is no key
VariantsOf(dict, name) ==
    IF \E e \in 1..Len(dict) : dict[e].arabic = name
    THEN dict[CHOOSE e \in 1..Len(dict) : dict[e].arabic = name].english
    ELSE <<>>

\* englishToArabic[english]: the Arabic names that list the variant, in dictionary order
ArabicOf(dict, english) ==
    LET Lists(entry) == \E k \in 1..Len(entry.english) : entry.english[k] = english
        listing == SelectSeq(dict, Lists)
    IN [i \in 1..Len(listing) |-> listing[i].arabic]

englishToArabic(english) == ArabicOf(arabicToEnglish, english)

\* ------------------------------------------------------------------------
\* CognitiveSearch: rule-based transliteration of a Latin query
\* ------------------------------------------------------------------------
digitMap ==
    <<[key |-> <<"2">>, options |-> <<<<"HAMZA">>, <<"ALEF">>>>],
      [key |-> <<"3">>, options |-> <<<<"AIN">>>>],
      [key |-> <<"5">>, options |-> <<<<"KHAH">>>>],
      [key |-> <<"6">>, options |-> <<<<"TAH">>>>],
      [key |-> <<"7">>, options |-> <<<<"HAH">>>>],
      [key |-> <<"8">>, options |-> <<<<"GHAIN">>, <<"JEEM">>>>],
      [key |-> <<"9">>, options |-> <<<<"SAD">>, <<"DAD">>>>]>>

digraphMap ==
    <<[key |-> <<"s", "h">>, options |-> <<<<"SHEEN">>>>],
      [key |-> <<"c", "h">>, options |-> <<<<"TEH", "SHEEN">>, <<"SHEEN">>>>],
      [key |-> <<"k", "h">>, options |-> <<<<"KHAH">>>>],
      [key |-> <<"t", "h">>, options |-> <<<<"THEH">>, <<"THAL">>>>],
      [key |-> <<"d", "h">>, options |-> <<<<"THAL">>>>],
      [key |-> <<"g", "h">>, options |-> <<<<"GHAIN">>>>],
      [key |-> <<"p", "h">>, options |-> <<<<"FEH">>>>],
      [key |-> <<"a", "a">>, options |-> <<<<"ALEF">>, <<>>>>],
      [key |-> <<"e", "e">>, options |-> <<<<"YEH">>>>],
      [key |-> <<"o", "o">>, options |-> <<<<"WAW">>>>],
      [key |-> <<"o", "u">>, options |-> <<<<"WAW">>>>],
      [key |-> <<"o", "w">>, options |-> <<<<"WAW">>>>],
      [key |-> <<"a", "i">>, options |-> <<<<"YEH">>, <<"ALEF">>>>],
      [key |-> <<"a", "y">>, options |-> <<<<"YEH">>>>],
      [key |-> <<"e", "a">>, options |-> <<<<"YEH">>, <<"ALEF">>>>],
      [key |-> <<"i", "e">>, options |-> <<<<"YEH">>>>]>>

singleMap ==
    <<[key |-> <<"a">>, options |-> <<<<"ALEF">>, <<>>>>],
      [key |-> <<"b">>, options |-> <<<<"BEH">>>>],
      [key |-> <<"c">>, options |-> <<<<"KAF">>, <<"SEEN">>>>],
      [key |-> <<"d">>, options |-> <<<<"DAL">>>>],
      [key |-> <<"e">>, options |-> <<<<"YEH">>, <<>>>>],
      [key |-> <<"f">>, options |-> <<<<"FEH">>>>],
      [key |-> <<"g">>, options |-> <<<<"JEEM">>, <<"GHAIN">>, <<"QAF">>>>],
      [key |-> <<"h">>, options |-> <<<<"HEH">>, <<"HAH">>>>],
      [key |-> <<"i">>, options |-> <<<<"YEH">>>>],
      [key |-> <<"j">>, options |-> <<<<"JEEM">>>>],
      [key |-> <<"k">>, options |-> <<<<"KAF">>>>],
      [key |-> <<"l">>, options |-> <<<<"LAM">>>>],
      [key |-> <<"m">>, options |-> <<<<"MEEM">>>>],
      [key |-> <<"n">>, options |-> <<<<"NOON">>>>],
      [key |-> <<"o">>, options |-> <<<<"WAW">>, <<>>>>],
      [key |-> <<"p">>, options |-> <<<<"BEH">>>>],
      [key |-> <<"q">>, options |-> <<<<"QAF">>>>],
      [key |-> <<"r">>, options |-> <<<<"REH">>>>],
      [key |-> <<"s">>, options |-> <<<<"SEEN">>, <<"SAD">>>>],
      [key |-> <<"t">>, options |-> <<<<"TEH">>, <<"TAH">>>>],
      [key |-> <<"u">>, options |-> <<<<"WAW">>, <<>>>>],
      [key |-> <<"v">>, options |-> <<<<"FEH">>>>],
      [key |-> <<"w">>, options |-> <<<<"WAW">>>>],
      [key |-> <<"x">>, options |-> <<<<"KAF", "SEEN">>, <<"ZAIN">>>>],
      [key |-> <<"y">>, options |-> <<<<"YEH">>, <<>>>>],
      [key |-> <<"z">>, options |-> <<<<"ZAIN">>, <<"THAL">>>>]>>

\* map[key], <<>> (undefined) when the map has no such key
RECURSIVE Lookup(_, _)
Lookup(map, key) ==
    IF map = <<>> THEN <<>>
    ELSE IF Head(map).key = key THEN Head(map).options
    ELSE Lookup(Tail(map), key)

InnerCap == 120
TokenCap == 60
CombineCap == 80
CandidateCap == 100

\* Array.from(new Set(seq)): the first occurrence of each element, in order
Unique(seq) ==
    LET first == {i \in 1..Len(seq) : \A j \in 1..(i - 1) : seq[j] # seq[i]}
    IN [k \in 1..Cardinality(first) |->
           seq[CHOOSE i \in first : Cardinality({j \in first : j <= i}) = k]]

\* seq.slice(0, n)
Slice(seq, n) == SubSeq(seq, 1, IF Len(seq) < n THEN Len(seq) ELSE n)

\* the nested loops that push base + option, base by base, and stop once the list is
\* longer than the cap: the first cap + 1 elements of the product
ExpandFrom(bases, options, cap) ==
    LET total == Len(bases) * Len(options)
    IN [k \in 1..(IF total > cap THEN cap + 1 ELSE total) |->
           bases[((k - 1) \div Len(options)) + 1] \o options[((k - 1) % Len(options)) + 1]]

\* the while loop of transliterateToken from position i
RECURSIVE TokenVariants(_, _, _)
TokenVariants(token, i, variants) ==
    IF i > Len(token) THEN variants
    ELSE IF Lookup(digitMap, <<token[i]>>) # <<>>
         THEN TokenVariants(token, i + 1,
                  ExpandFrom(variants, Lookup(digitMap, <<token[i]>>), InnerCap))
    ELSE IF i + 1 <= Len(token) /\ Lookup(digraphMap, SubSeq(token, i, i + 1)) # <<>>
         THEN TokenVariants(token, i + 2,
                  ExpandFrom(variants, Lookup(digraphMap, SubSeq(token, i, i + 1)), InnerCap))
    ELSE TokenVariants(token, i + 1,
             ExpandFrom(variants,
                        IF Lookup(singleMap, <<token[i]>>) # <<>>
                        THEN Lookup(singleMap, <<token[i]>>) ELSE <<<<token[i]>>>>, InnerCap))

\* transliterateToken without the final slice
transliterateToken_NoLimit(token) == Unique(TokenVariants(token, 1, <<<<>>>>))

transliterateToken(token) == Slice(Unique(TokenVariants(token, 1, <<<<>>>>)), TokenCap)

\* query.split(/\s+/).filter(Boolean)
RECURSIVE Tokens(_, _, _)
Tokens(s, cur, acc) ==
    IF s = <<>> THEN (IF cur = <<>> THEN acc ELSE Append(acc, cur))
    ELSE IF Head(s) \in WhiteSpace
         THEN Tokens(Tail(s), <<>>, IF cur = <<>> THEN acc ELSE Append(acc, cur))
         ELSE Tokens(Tail(s), Append(cur, Head(s)), acc)

\* (base ? base + ' ' : '') + v for every base and variant, until more than 80
CombineFrom(bases, variants) ==
    LET total == Len(bases) * Len(variants)
    IN [k \in 1..(IF total > CombineCap THEN CombineCap + 1 ELSE total) |->
           LET base == bases[((k - 1) \div Len(variants)) + 1]
           IN (IF base # <<>> THEN base \o <<" ">> ELSE <<>>)
                  \o variants[((k - 1) % Len(variants)) + 1]]

RECURSIVE CombineTokens(_, _, _)
CombineTokens(tokens, k, results) ==
    IF k > Len(tokens) THEN results
    ELSE CombineTokens(tokens, k + 1,
             CombineFrom(results, transliterateToken(tokens[k])))

buildArabicCandidatesFromEnglish(englishQuery) ==
    IF englishQuery = <<>> THEN <<>>
    ELSE LET query == Trim(ToLowerCase(englishQuery))
             results == CombineTokens(Tokens(query, <<>>, <<>>), 1, <<<<>>>>)
         IN Slice(Unique(IF results = <<>> THEN <<query>> ELSE results), CandidateCap)

\* ------------------------------------------------------------------------
\* CognitiveSearch: scoring and search
\* ------------------------------------------------------------------------

\* the outcome of a call that throws a TypeError
TypeError == <<"TypeError">>

\* the outcome of a call that returns an array: the array, or a throw
Returned(array) == [threw |-> FALSE, value |-> array]

Thrown == [threw |-> TRUE, value |-> <<>>]

\* no value returned yet by a loop that may return
None == <<>>

\* the lower-case property names every object inherits from Object.prototype:
\* englishToArabic[query] is truthy for them although the dictionary has no such entry
ObjectPrototypeKeys ==
    {<<"c", "o", "n", "s", "t", "r", "u", "c", "t", "o", "r">>,
     <<"_", "_", "p", "r", "o", "t", "o", "_", "_">>}

EitherIncludes(s, t) == Includes(s, t) \/ Includes(t, s)

\* 1) the dictionary variants of the name: the first variant with similarity above 0.6
\* or containment decides
RECURSIVE DictionaryPath(_, _, _)
DictionaryPath(query, variants, k) ==
    IF k > Len(variants) THEN None
    ELSE IF RatLess(Rat(6, 10), getTextSimilarity(query, variants[k]))
         THEN getTextSimilarity(query, variants[k])
    ELSE IF EitherIncludes(variants[k], query) THEN Rat(8, 10)
    ELSE DictionaryPath(query, variants, k + 1)

\* 2) the generated candidates: the first one with similarity above 0.65, or contained in
\* the name, decides
RECURSIVE GenerativePath(_, _, _)
GenerativePath(candidates, arabicName, k) ==
    IF k > Len(candidates) THEN None
    ELSE IF RatLess(Rat(65, 100),
                    getTextSimilarity(normalizeText(candidates[k]), normalizeText(arabicName)))
         THEN getTextSimilarity(normalizeText(candidates[k]), normalizeText(arabicName))
    ELSE IF Includes(normalizeText(arabicName), normalizeText(candidates[k])) THEN Rat(85, 100)
    ELSE GenerativePath(candidates, arabicName, k + 1)

\* the Arabic names listed for the query in englishToArabic
RECURSIVE ReversePath(_, _, _)
ReversePath(arabicVariants, arabicName, k) ==
    IF k > Len(arabicVariants) THEN None
    ELSE IF RatLess(Rat(6, 10), getTextSimilarity(arabicVariants[k], arabicName))
         THEN getTextSimilarity(arabicVariants[k], arabicName)
    ELSE IF EitherIncludes(arabicVariants[k], arabicName) THEN Rat(8, 10)
    ELSE ReversePath(arabicVariants, arabicName, k + 1)

\* the last loop: the first dictionary entry with a variant that contains the query or
\* is contained in it, and whose Arabic name has similarity above 0.5 to the name
PartialPath(query, arabicName) ==
    LET hits == {e \in 1..Len(arabicToEnglish) :
                    /\ \E k \in 1..Len(arabicToEnglish[e].english) :
                          EitherIncludes(arabicToEnglish[e].english[k], query)
                    /\ RatLess(Rat(5, 10),
                               getTextSimilarity(arabicToEnglish[e].arabic, arabicName))}
    IN IF hits = {} THEN Zero
       ELSE RatTimes(getTextSimilarity(
                         arabicToEnglish[CHOOSE e \in hits : \A f \in hits : e <= f].arabic,
                         arabicName),
                     Rat(9, 10))

\* getTransliterationScore with the guard on the name inverted: no score for an Arabic name
getTransliterationScore_LatinNamesOnly(query, arabicName) ==
    LET reverse == IF ~isArabic(query) /\ englishToArabic(query) # <<>>
                   THEN ReversePath(englishToArabic(query), arabicName, 1) ELSE None
    IN IF isArabic(arabicName) THEN Zero
       ELSE IF ~isArabic(query) /\ query \in ObjectPrototypeKeys THEN TypeError
       ELSE IF reverse # None THEN reverse
       ELSE PartialPath(query, arabicName)

getTransliterationScore(query, arabicName) ==
    LET cross == isArabic(arabicName) /\ ~isArabic(query)
        dictionary == IF cross THEN DictionaryPath(query, VariantsOf(arabicToEnglish, arabicName), 1)
                      ELSE None
        generative == IF cross
                      THEN GenerativePath(buildArabicCandidatesFromEnglish(query), arabicName, 1)
                      ELSE None
        reverse == IF ~isArabic(query) /\ englishToArabic(query) # <<>>
                   THEN ReversePath(englishToArabic(query), arabicName, 1) ELSE None
    IN IF dictionary # None THEN dictionary
       ELSE IF generative # None THEN generative
       ELSE IF ~isArabic(query) /\ query \in ObjectPrototypeKeys THEN TypeError
       ELSE IF reverse # None THEN reverse
       ELSE PartialPath(query, arabicName)

\* a value on which .toLowerCase() can be called
IsString(v) == v # NULL

\* the loop over the alternative names, from entry k with the maximum so far; an entry
\* that is no string throws
RECURSIVE AltNamesScore(_, _, _, _)
AltNamesScore(query, altNames, k, maxScore) ==
    IF k > Len(altNames) THEN maxScore
    ELSE IF ~IsString(altNames[k]) THEN TypeError
    ELSE LET normalizedAlt == normalizeText(ToLowerCase(altNames[k]))
             altScore == RatTimes(getTextSimilarity(query, normalizedAlt), Rat(8, 10))
             partial == IF EitherIncludes(normalizedAlt, query) THEN Rat(85, 100) ELSE Zero
         IN AltNamesScore(query, altNames, k + 1, RatMax(RatMax(maxScore, altScore), partial))

calculateMatchScore(query, person) ==
    IF ~IsString(person.name) THEN TypeError
    ELSE LET normalizedName == normalizeText(ToLowerCase(person.name))
             nameScore == getTextSimilarity(query, normalizedName)
             partial == IF EitherIncludes(normalizedName, query) THEN Rat(9, 10) ELSE Zero
             altScore == IF person.altNames # NULL /\ Len(person.altNames) > 0
                         THEN AltNamesScore(query, person.altNames, 1, RatMax(nameScore, partial))
                         ELSE RatMax(nameScore, partial)
             transliterationScore == getTransliterationScore(query, person.name)
         IN IF altScore = TypeError \/ transliterationScore = TypeError THEN TypeError
            ELSE RatMax(altScore, transliterationScore)

getMatchType(query, person) ==
    IF isArabic(query) /\ isArabic(person.name) THEN "Exact Arabic Match"
    ELSE IF ~isArabic(query) /\ isArabic(person.name) THEN "English to Arabic Transliteration"
    ELSE IF isArabic(query) /\ ~isArabic(person.name) THEN "Arabic to English Transliteration"
    ELSE "English Match"

\* the loop of search over the people, a throw when a score throws; index is the
\* position of the person in the array and stands for the identity of the object
RECURSIVE Matches(_, _, _, _)
Matches(query, roster, k, results) ==
    IF k > Len(roster) THEN Returned(results)
    ELSE IF calculateMatchScore(query, roster[k]) = TypeError THEN Thrown
    ELSE IF RatLess(Zero, calculateMatchScore(query, roster[k]))
         THEN Matches(query, roster, k + 1,
                      Append(results, [person |-> roster[k],
                                       index |-> k,
                                       score |-> calculateMatchScore(query, roster[k]),
                                       matchType |-> getMatchType(query, roster[k])]))
    ELSE Matches(query, roster, k + 1, results)

\* results.sort((a, b) => b.score - a.score): stable, highest score first
RECURSIVE InsertByScore(_, _)
InsertByScore(sorted, r) ==
    IF sorted = <<>> THEN <<r>>
    ELSE IF RatLess(Head(sorted).score, r.score) THEN <<r>> \o sorted
    ELSE <<Head(sorted)>> \o InsertByScore(Tail(sorted), r)

RECURSIVE SortByScore(_, _)
SortByScore(results, sorted) ==
    IF results = <<>> THEN sorted
    ELSE SortByScore(Tail(results), InsertByScore(sorted, Head(results)))

\* search without the sort
search_Unsorted(query, roster) ==
    IF query = NULL \/ Trim(query) = <<>> THEN Returned(<<>>)
    ELSE Matches(normalizeText(ToLowerCase(Trim(query))), roster, 1, <<>>)

search(query, roster) ==
    IF query = NULL \/ Trim(query) = <<>> THEN Returned(<<>>)
    ELSE LET results == Matches(normalizeText(ToLowerCase(Trim(query))), roster, 1, <<>>)
         IN IF results.threw THEN Thrown ELSE Returned(SortByScore(results.value, <<>>))

MinSuggestionLength == 2
MaxSuggestions == 10

\* the alternative names of a person that contain the query; an entry that is no string
\* throws
RECURSIVE AltSuggestions(_, _, _, _)
AltSuggestions(query, altNames, k, found) ==
    IF k > Len(altNames) THEN Returned(found)
    ELSE IF ~IsString(altNames[k]) THEN Thrown
    ELSE AltSuggestions(query, altNames, k + 1,
             IF Includes(normalizeText(ToLowerCase(altNames[k])), query)
             THEN Append(found, altNames[k]) ELSE found)

\* what one person adds to the suggestions: its name, its alternative names and the
\* dictionary variants of its name that contain the query
SuggestionsOf(query, person) ==
    IF ~IsString(person.name) THEN Thrown
    ELSE LET byName == IF Includes(normalizeText(ToLowerCase(person.name)), query)
                       THEN <<person.name>> ELSE <<>>
             byAlt == IF person.altNames # NULL
                      THEN AltSuggestions(query, person.altNames, 1, <<>>) ELSE Returned(<<>>)
             ContainsQuery(variant) == Includes(ToLowerCase(variant), query)
             byVariant == IF isArabic(person.name)
                          THEN SelectSeq(VariantsOf(arabicToEnglish, person.name), ContainsQuery)
                          ELSE <<>>
         IN IF byAlt.threw THEN Thrown ELSE Returned(byName \o byAlt.value \o byVariant)

RECURSIVE Suggestions(_, _, _, _)
Suggestions(query, roster, k, found) ==
    IF k > Len(roster) THEN Returned(found)
    ELSE IF SuggestionsOf(query, roster[k]).threw THEN Thrown
    ELSE Suggestions(query, roster, k + 1, found \o SuggestionsOf(query, roster[k]).value)

getSuggestions(query, roster) ==
    IF query = NULL \/ Len(query) < MinSuggestionLength THEN Returned(<<>>)
    ELSE LET found == Suggestions(normalizeText(ToLowerCase(query)), roster, 1, <<>>)
         IN IF found.threw THEN Thrown ELSE Returned(Slice(Unique(found.value), MaxSuggestions))

\* ------------------------------------------------------------------------
\* Searches: one call of search or getSuggestions on a CognitiveSearch
\* ------------------------------------------------------------------------
Ahmed == <<"ALEF_HAMZA_ABOVE", "HAH", "MEEM", "DAL">>

\* the people a roster is made of: Arabic and Latin names, one name in two spellings that
\* normalizeText makes equal, and entries without a name or with a null alternative name
SearchPeople ==
    {[name |-> Ahmed, altNames |-> <<>>],
     [name |-> <<"ALEF", "HAH", "MEEM", "DAL">>, altNames |-> <<>>],
     [name |-> <<"AIN", "LAM", "YEH">>, altNames |-> NULL],
     [name |-> <<"a", "h", "m", "a", "d">>, altNames |-> <<<<"a", "h", "m", "e", "d">>>>],
     [name |-> <<"A", "l", "i">>, altNames |-> <<>>],
     [name |-> NULL, altNames |-> <<>>],
     [name |-> <<"a", "l", "i">>, altNames |-> <<NULL>>]}

Rosters == SeqsUpTo(SearchPeople, MaxRoster)

Queries ==
    {NULL, <<>>, <<" ">>, <<"a">>, <<"a", "h">>, <<"z", "z">>,
     <<"A", "h", "m", "e", "d">>, <<"a", "h", "m", "e", "d">>, <<"a", "h", "m", "a", "d">>,
     <<"a", "l", "i">>, <<" ", "a", "l", "y">>, Ahmed,
     <<"c", "o", "n", "s", "t", "r", "u", "c", "t", "o", "r">>}

Search ==
    /\ calls = <<>>
    /\ \E query \in Queries : \E roster \in Rosters :
          calls' = <<[op |-> "search", input |-> [query |-> query, people |-> roster],
                      result |-> search(query, roster)]>>
    /\ UNCHANGED <<people, aliases, marriages, data, initialized, ops>>
    /\ UNCHANGED viewVars
    /\ UNCHANGED pageVars

Suggest ==
    /\ calls = <<>>
    /\ \E query \in Queries : \E roster \in Rosters :
          calls' = <<[op |-> "getSuggestions", input |-> [query |-> query, people |-> roster],
                      result |-> getSuggestions(query, roster)]>>
    /\ UNCHANGED <<people, aliases, marriages, data, initialized, ops>>
    /\ UNCHANGED viewVars
    /\ UNCHANGED pageVars

NextSearch == Search \/ Suggest

SpecSearch == Init /\ [][NextSearch]_vars

\* ------------------------------------------------------------------------
\* Transliterations: one call of buildArabicCandidatesFromEnglish per behaviour
\* ------------------------------------------------------------------------
MaxQueryLen == 6

\* 'g' has three Arabic options, 'a' two (one of them empty, and 'aa' is a digraph)
TranslitQueries == SeqsUpTo({"g", "a", " "}, MaxQueryLen)

\* the tokens the call splits its query into (lines 197 and 239)
TokensOf(englishQuery) == Tokens(Trim(ToLowerCase(englishQuery)), <<>>, <<>>)

\* buildArabicCandidatesFromEnglish(query); the log keeps what transliterateToken
\* returned for each token (tokenVariants, line 240) next to the returned array
Transliterate ==
    /\ calls = <<>>
    /\ \E query \in TranslitQueries :
           calls' = <<[op |-> "buildArabicCandidatesFromEnglish",
                       input |-> [query |-> query, people |-> <<>>],
                       result |-> [threw |-> FALSE,
                                   tokenVariants |->
                                       [t \in 1..Len(TokensOf(query)) |->
                                            transliterateToken(TokensOf(query)[t])],
                                   value |-> buildArabicCandidatesFromEnglish(query)]]>>
    /\ UNCHANGED <<people, aliases, marriages, data, initialized, ops>>
    /\ UNCHANGED viewVars
    /\ UNCHANGED pageVars

NextTranslit == Transliterate

SpecTranslit == Init /\ [][NextTranslit]_vars

\* ------------------------------------------------------------------------
\* Comparisons: getTextSimilarity of the normalized forms of two spellings
\* ------------------------------------------------------------------------
MaxTextLen == 4

\* the character classes of the replacements of normalizeText (lines 317-320), each
\* with the letter it is replaced by
FoldClasses ==
    {{"ALEF_HAMZA_ABOVE", "ALEF_HAMZA_BELOW", "ALEF_MADDA_ABOVE", "ALEF"},
     {"ALEF_MAKSURA", "YEH"},
     {"TEH_MARBUTA", "HEH"},
     {"WAW_HAMZA_ABOVE", "YEH_HAMZA_ABOVE", "WAW"}}

\* the letters a spelling may use in place of c
Interchangeable(c) == UNION {class \in FoldClasses : c \in class} \ {c}

InsertAt(s, i, c) == SubSeq(s, 1, i) \o <<c>> \o SubSeq(s, i + 1, Len(s))

\* the spellings one step away from s: a letter replaced by a variant of its class,
\* a hamza added anywhere, or a space added at an end or next to a space
Respellings(s) ==
    {[s EXCEPT ![i] = c] : <<i, c>> \in
         {<<j, d>> \in (1..Len(s)) \X UNION FoldClasses : d \in Interchangeable(s[j])}}
    \cup {InsertAt(s, i, "HAMZA") : i \in 0..Len(s)}
    \cup {InsertAt(s, i, " ") : i \in
              {j \in 0..Len(s) : \/ j = 0
                                 \/ j = Len(s)
                                 \/ s[j] \in WhiteSpace
                                 \/ s[j + 1] \in WhiteSpace}}

Texts ==
    SeqsUpTo({"ALEF_HAMZA_ABOVE", "ALEF_MAKSURA", "TEH_MARBUTA", "YEH_HAMZA_ABOVE",
              "LAM", " "}, MaxTextLen)

\* getTextSimilarity(normalizeText(text1), normalizeText(text2)), as calculateMatchScore
\* and getTransliterationScore call it on a query and a name
Compare ==
    /\ calls = <<>>
    /\ \E text1 \in Texts :
           \E text2 \in Respellings(text1) :
               calls' = <<[op |-> "getTextSimilarity",
                           input |-> [text1 |-> text1, text2 |-> text2],
                           result |-> [threw |-> FALSE,
                                       value |-> getTextSimilarity(normalizeText(text1),
                                                                   normalizeText(text2))]]>>
    /\ UNCHANGED <<people, aliases, marriages, data, initialized, ops>>
    /\ UNCHANGED viewVars
    /\ UNCHANGED pageVars

NextNormalize == Compare

SpecNormalize == Init /\ [][NextNormalize]_vars

\* ------------------------------------------------------------------------
\* Properties of the ingestion result
\* ------------------------------------------------------------------------
Results == {calls[k].result : k \in {j \in 1..Len(calls) : calls[j].op = "convert"}}

PeopleOf(d) == {d.people[i] : i \in 1..Len(d.people)}

MarriagesOf(d) == {d.marriages[i] : i \in 1..Len(d.marriages)}


\* every reference of every person of the data set d resolves to a person of d
RefsResolve(d) ==
    \A p \in PeopleOf(d) :
        /\ p.fatherId = NULL \/ p.fatherId \in Ids(d.people)
        /\ p.motherId = NULL \/ p.motherId \in Ids(d.people)
        /\ Elems(p.spouseIds) \subseteq Ids(d.people)

\* no person of the data set d is its own father, mother or spouse
NoSelfRefs(d) ==
    \A p \in PeopleOf(d) :
        /\ p.fatherId # p.id
        /\ p.motherId # p.id
        /\ p.id \notin Elems(p.spouseIds)

\* C1: in every result convertCSVToJSON returns, fatherId and motherId are null or the id
\* of a person of the result, and every spouseIds entry is the id of a person of the result
C1_ReferencesResolve == \A r \in Results : RefsResolve(r)

\* a result in which a reference survived, after a row whose reference was dropped
C1_Witness ==
    \E k \in 1..Len(calls) :
        /\ \E p \in PeopleOf(calls[k].result) : p.fatherId # NULL \/ p.spouseIds # <<>>
        /\ \E i \in 1..Len(calls[k].input) :
              /\ RowUsable(calls[k].input[i])
              /\ StrTruthy(createPersonFromCSV(calls[k].input[i]).fatherId)
              /\ createPersonFromCSV(calls[k].input[i]).fatherId
                    \notin Ids(calls[k].result.people)

\* C2: in every result convertCSVToJSON returns, no person has its own id as fatherId,
\* motherId or spouseIds entry
C2_NoSelfReference == \A r \in Results : NoSelfRefs(r)

\* a result with a person whose row named the person itself as father or spouse
C2_Witness ==
    \E k \in 1..Len(calls) : \E i \in 1..Len(calls[k].input) :
        LET row == calls[k].input[i]
        IN /\ RowUsable(row)
           /\ createPersonFromCSV(row).id \in Ids(calls[k].result.people)
           /\ \/ createPersonFromCSV(row).fatherId = createPersonFromCSV(row).id
              \/ createPersonFromCSV(row).id \in Elems(createPersonFromCSV(row).spouseIds)

\* the converter after the row loop of the first conversion, before processAliases
AfterRows == ProcessRows(NewConverter, calls[1].input)

\* what the claim C6 says of one reference: the alias target for the id of a collapsed
\* row, the id itself for an accepted person, null otherwise
ClaimedRef(pre, ref, final) ==
    /\ ref \in DOMAIN pre.aliases => final = pre.aliases[ref]
    /\ ref \in Ids(pre.people) => final = ref
    /\ (ref \notin DOMAIN pre.aliases /\ ref \notin Ids(pre.people)) => final = NULL

Known(pre, ref) == ref \in DOMAIN pre.aliases \/ ref \in Ids(pre.people)

RECURSIVE KnownRefs(_, _)
KnownRefs(pre, refs) ==
    IF refs = <<>> THEN <<>>
    ELSE (IF Known(pre, Head(refs)) THEN <<Head(refs)>> ELSE <<>>) \o KnownRefs(pre, Tail(refs))

\* C6 as stated: a reference to a collapsed row points to the person the row was aliased
\* to, a reference to an accepted person is unchanged, any other reference is null or
\* removed from spouseIds
C6_Original ==
    calls # <<>> =>
        \A i \in 1..Len(AfterRows.people) :
            LET p0 == AfterRows.people[i]
                p1 == calls[1].result.people[i]
                s0 == KnownRefs(AfterRows, p0.spouseIds)
            IN /\ p0.fatherId # NULL => ClaimedRef(AfterRows, p0.fatherId, p1.fatherId)
               /\ p0.motherId # NULL => ClaimedRef(AfterRows, p0.motherId, p1.motherId)
               /\ Len(p1.spouseIds) = Len(s0)
               /\ \A j \in 1..Len(s0) : ClaimedRef(AfterRows, s0[j], p1.spouseIds[j])

\* the reference the amended claim expects: the alias target when the id is an alias key,
\* else the id when it is an accepted person, else null; null also when that is the
\* person itself
AmendedRef(pre, self, ref) ==
    LET c == IF ref \in DOMAIN pre.aliases THEN pre.aliases[ref]
             ELSE IF ref \in Ids(pre.people) THEN ref ELSE NULL
    IN IF c = self THEN NULL ELSE c

RECURSIVE AmendedSpouses(_, _, _)
AmendedSpouses(pre, self, refs) ==
    IF refs = <<>> THEN <<>>
    ELSE (IF AmendedRef(pre, self, Head(refs)) # NULL
          THEN <<AmendedRef(pre, self, Head(refs))>> ELSE <<>>)
         \o AmendedSpouses(pre, self, Tail(refs))

\* C6 amended: after ingestion a reference that names an alias key points to the alias
\* target (also when the key is the id of an accepted person), any other reference to an
\* accepted person is unchanged, a reference to neither is null or removed, and a
\* reference that resolves to the person itself is null or removed
C6_ReferencesThroughAliases ==
    calls # <<>> =>
        LET pre == AfterRows
        IN \A i \in 1..Len(pre.people) :
              LET p0 == pre.people[i]
                  p1 == calls[1].result.people[i]
              IN /\ p1.id = p0.id
                 /\ p0.fatherId # NULL => p1.fatherId = AmendedRef(pre, p0.id, p0.fatherId)
                 /\ p0.motherId # NULL => p1.motherId = AmendedRef(pre, p0.id, p0.motherId)
                 /\ p1.spouseIds = AmendedSpouses(pre, p0.id, p0.spouseIds)

\* a person whose father reference named a collapsed row and now names the person that
\* row was aliased to
C6_Witness ==
    /\ calls # <<>>
    /\ \E i \in 1..Len(AfterRows.people) :
          LET p0 == AfterRows.people[i]
              p1 == calls[1].result.people[i]
          IN /\ p0.fatherId \in DOMAIN AfterRows.aliases
             /\ p0.fatherId \notin Ids(AfterRows.people)
             /\ p1.fatherId = AfterRows.aliases[p0.fatherId]
             /\ p1.fatherId # p0.fatherId

\* the ids a conversion has met: people, alias keys and references of the rows
IdsMet(c) ==
    Ids(c.result.people) \cup DOMAIN c.result.aliases
        \cup UNION {LET person == createPersonFromCSV(c.input[i])
                    IN {person.fatherId, person.motherId} \cup Elems(person.spouseIds) :
                        i \in {j \in 1..Len(c.input) : RowUsable(c.input[j])}}

SpousePair(m) == {m.spouse1Id, m.spouse2Id}

\* C9: generateMarriageId(A, B) = generateMarriageId(B, A) for all ids, and a result holds
\* at most one marriage per unordered pair of spouses
C9_MarriageIdOrderIndependent ==
    \A k \in 1..Len(calls) :
        LET met == IdsMet(calls[k])
            ms == calls[k].result.marriages
        IN /\ \A a \in met : \A b \in met :
                 generateMarriageId(a, b) = generateMarriageId(b, a)
           /\ \A i \in 1..Len(ms) : \A j \in 1..Len(ms) :
                 i # j => SpousePair(ms[i]) # SpousePair(ms[j])

\* a result with the marriage of two people who list each other as spouse
C9_Witness ==
    \E r \in Results : \E m \in MarriagesOf(r) : \E p \in PeopleOf(r) : \E q \in PeopleOf(r) :
        /\ p.id # q.id
        /\ SpousePair(m) = {p.id, q.id}
        /\ q.id \in Elems(p.spouseIds)
        /\ p.id \in Elems(q.spouseIds)

NoDuplicates(seq) == \A i \in 1..Len(seq) : \A j \in 1..Len(seq) : i # j => seq[i] # seq[j]

\* C10: in a result, a person is in the children of marriage M exactly when its fatherId
\* and motherId are both set and are the two spouses of M, and the children of M are
\* people of the result, each listed once
C10_ChildrenMatchParents ==
    \A r \in Results : \A m \in MarriagesOf(r) :
        /\ \A p \in PeopleOf(r) :
              (p.id \in Elems(m.children)) <=>
                  (/\ StrTruthy(p.fatherId)
                   /\ StrTruthy(p.motherId)
                   /\ {p.fatherId, p.motherId} = SpousePair(m))
        /\ Elems(m.children) \subseteq Ids(r.people)
        /\ NoDuplicates(m.children)

\* the converter of the first conversion after its first n rows
AfterPrefix(n) == ProcessRows(NewConverter, SubSeq(calls[1].input, 1, n))

\* rows i < j of the first conversion, both usable, row i stored as a person when row j
\* comes
RowPairs ==
    IF calls = <<>> THEN {}
    ELSE {pr \in (1..Len(calls[1].input)) \X (1..Len(calls[1].input)) :
            /\ pr[1] < pr[2]
            /\ RowUsable(calls[1].input[pr[1]])
            /\ RowUsable(calls[1].input[pr[2]])
            /\ createPersonFromCSV(calls[1].input[pr[1]]) \in Elems(AfterPrefix(pr[2] - 1).people)}

PersonOfRow(i) == createPersonFromCSV(calls[1].input[i])

BirthYearsWithinTolerance(y1, y2) ==
    YearTruthy(y1) /\ YearTruthy(y2) /\ Abs(y1[1] - y2[1]) <= BirthTolerance

\* row j was collapsed into the person of row i
CollapsedInto(i, j) ==
    /\ AfterPrefix(j).people = AfterPrefix(j - 1).people
    /\ PersonOfRow(j).id \in DOMAIN AfterPrefix(j).aliases
    /\ AfterPrefix(j).aliases[PersonOfRow(j).id] = PersonOfRow(i).id

\* C4: two rows with identical display names and birth years within 2 years collapse:
\* the second row is not added to people and its id is an alias key whose value is the
\* id of the first row, whatever the first/middle/last name fields hold
C4_SameNameCloseBirthCollapse ==
    \A pr \in RowPairs :
        (/\ calls[1].input[pr[1]].name = calls[1].input[pr[2]].name
         /\ BirthYearsWithinTolerance(PersonOfRow(pr[1]).birthYear, PersonOfRow(pr[2]).birthYear))
        => CollapsedInto(pr[1], pr[2])

\* the precondition of C5: name similarity at least 0.8 and a pair of alternate names
\* with similarity above 0.9
SimilarWithAltMatch(new, old) ==
    /\ ~SimBelowNameThreshold(calculateNameSimilarity(new.name, old.name))
    /\ AltNamesMatch(new.altNames, old.altNames)

\* row j was collapsed into a person stored before it
Collapsed(j) ==
    /\ AfterPrefix(j).people = AfterPrefix(j - 1).people
    /\ PersonOfRow(j).id \in DOMAIN AfterPrefix(j).aliases

\* C5 as stated: name similarity at least 0.8 and an alternate-name match above 0.9 make
\* two persons the same person, also when both birth years are known and more than 2
\* apart: isSamePerson says so and the later row is collapsed
C5_Original ==
    \A pr \in RowPairs :
        SimilarWithAltMatch(PersonOfRow(pr[2]), PersonOfRow(pr[1]))
        => /\ isSamePerson(PersonOfRow(pr[2]), PersonOfRow(pr[1]))
           /\ Collapsed(pr[2])

\* C5 amended: with name similarity at least 0.8 and an alternate-name match above 0.9,
\* two persons are the same person exactly when their birth years are not both known and
\* more than 2 apart: without that conflict the later row is collapsed, with it the later
\* row is not collapsed into the earlier one
C5_SameUnlessBirthYearsConflict ==
    \A pr \in RowPairs :
        LET old == PersonOfRow(pr[1])
            new == PersonOfRow(pr[2])
        IN SimilarWithAltMatch(new, old)
           => IF BirthYearsConflict(new.birthYear, old.birthYear)
              THEN /\ ~isSamePerson(new, old)
                   /\ ~CollapsedInto(pr[1], pr[2])
              ELSE /\ isSamePerson(new, old)
                   /\ Collapsed(pr[2])

\* two rows with similar names and matching alternate names, born more than 2 years
\* apart, both stored as people; and in another file such a pair without the conflict,
\* collapsed
C5_Witness ==
    \E pr \in RowPairs :
        /\ SimilarWithAltMatch(PersonOfRow(pr[2]), PersonOfRow(pr[1]))
        /\ BirthYearsConflict(PersonOfRow(pr[2]).birthYear, PersonOfRow(pr[1]).birthYear)
        /\ PersonOfRow(pr[1]).id # PersonOfRow(pr[2]).id
        /\ {PersonOfRow(pr[1]), PersonOfRow(pr[2])} \subseteq Elems(AfterPrefix(pr[2]).people)

\* C7: a second convertCSVToJSON of the same rows returns the same set of person ids and
\* the same alias mapping as the first
C7_ReingestionIdempotent ==
    \A k \in 2..Len(calls) :
        (/\ calls[k].op = "convert"
         /\ calls[k - 1].op = "convert"
         /\ calls[k].input = calls[k - 1].input)
        => /\ Ids(calls[k].result.people) = Ids(calls[k - 1].result.people)
           /\ calls[k].result.aliases = calls[k - 1].result.aliases

\* C8: the result of convertCSVToJSON on a converter that has converted or loaded other
\* data is the result of the same call on a freshly constructed converter
C8_RebuiltWholesale ==
    \A k \in 1..Len(calls) :
        calls[k].op = "convert"
        => calls[k].result = ResultOf(convertCSVToJSON(NewConverter, calls[k].input))

\* C3: after any sequence of admin operations on the ingested data set, no person refers
\* to itself and every father, mother and spouse reference resolves to a person of
\* data.people
C3_AdminKeepsInvariants == initialized => (NoSelfRefs(data) /\ RefsResolve(data))

\* ------------------------------------------------------------------------
\* Properties of search
\* ------------------------------------------------------------------------
SearchCalls == {k \in 1..Len(calls) : calls[k].op = "search"}

\* the query as search hands it to calculateMatchScore
NormalizedQuery(c) == normalizeText(ToLowerCase(Trim(c.input.query)))

\* the score search gave the person at position i of the people array, 0 when the person
\* is not in the result
ScoreOf(c, i) ==
    IF \E r \in 1..Len(c.result.value) : c.result.value[r].index = i
    THEN c.result.value[CHOOSE r \in 1..Len(c.result.value) : c.result.value[r].index = i].score
    ELSE Zero

RatLeq(x, y) == ~RatLess(y, x)

\* C11: search returns the empty sequence, without throwing, for the empty query and for
\* every query shorter than 2 characters, whatever the people array
C11_ShortQueryYieldsNothing ==
    \A k \in SearchCalls :
        (calls[k].input.query = NULL \/ Len(calls[k].input.query) < MinSuggestionLength)
        => (~calls[k].result.threw /\ calls[k].result.value = <<>>)

\* what one dictionary variant of the name is worth for the query
VariantValue(query, variant) ==
    IF RatLess(Rat(6, 10), getTextSimilarity(query, variant))
    THEN getTextSimilarity(query, variant)
    ELSE IF EitherIncludes(variant, query) THEN Rat(8, 10) ELSE Zero

\* what one generated candidate is worth for the name
CandidateValue(candidate, arabicName) ==
    IF RatLess(Rat(65, 100),
               getTextSimilarity(normalizeText(candidate), normalizeText(arabicName)))
    THEN getTextSimilarity(normalizeText(candidate), normalizeText(arabicName))
    ELSE IF Includes(normalizeText(arabicName), normalizeText(candidate)) THEN Rat(85, 100)
    ELSE Zero

\* C12: the score of a person is the maximum over all paths; for a Latin query and an
\* Arabic name no dictionary variant of the name and no generated candidate is worth more
\* than the score the person got
C12_ScoreIsBestOverAllPaths ==
    \A k \in SearchCalls :
        (/\ ~calls[k].result.threw
         /\ calls[k].input.query # NULL
         /\ Trim(calls[k].input.query) # <<>>) =>
            \A i \in 1..Len(calls[k].input.people) :
                LET person == calls[k].input.people[i]
                    query == NormalizedQuery(calls[k])
                    variants == VariantsOf(arabicToEnglish, person.name)
                    candidates == buildArabicCandidatesFromEnglish(query)
                IN (isArabic(person.name) /\ ~isArabic(query))
                   => /\ \A v \in 1..Len(variants) :
                            RatLeq(VariantValue(query, variants[v]), ScoreOf(calls[k], i))
                      /\ \A c \in 1..Len(candidates) :
                            RatLeq(CandidateValue(candidates[c], person.name),
                                   ScoreOf(calls[k], i))

\* C13: two people of the array whose names are equal after normalizeText (and whose
\* alternative names are the same) get the same score for the same query
C13_NormalizedEqualNamesScoreEqually ==
    \A k \in SearchCalls :
        ~calls[k].result.threw =>
            \A i \in 1..Len(calls[k].input.people) : \A j \in 1..Len(calls[k].input.people) :
                LET p == calls[k].input.people[i]
                    q == calls[k].input.people[j]
                IN (/\ IsString(p.name) /\ IsString(q.name)
                    /\ normalizeText(ToLowerCase(p.name)) = normalizeText(ToLowerCase(q.name))
                    /\ p.altNames = q.altNames)
                   => ScoreOf(calls[k], i) = ScoreOf(calls[k], j)

\* C14: the sequence search returns is sorted by score, highest first, holds each person
\* of the array at most once, and holds exactly the people whose score is above 0
C14_ResultsSortedAndComplete ==
    \A k \in SearchCalls :
        LET c == calls[k]
            r == c.result.value
        IN (~c.result.threw /\ c.input.query # NULL /\ Trim(c.input.query) # <<>>) =>
              /\ \A a \in 1..Len(r) : \A b \in 1..Len(r) :
                    a < b => (RatLeq(r[b].score, r[a].score) /\ r[a].index # r[b].index)
              /\ {r[a].index : a \in 1..Len(r)}
                    = {i \in 1..Len(c.input.people) :
                          RatLess(Zero, calculateMatchScore(NormalizedQuery(c), c.input.people[i]))}
              /\ \A a \in 1..Len(r) :
                    /\ r[a].person = c.input.people[r[a].index]
                    /\ r[a].score = calculateMatchScore(NormalizedQuery(c), r[a].person)

\* a result of two people that the sort put in the other order than the array
C14_Witness ==
    \E k \in SearchCalls :
        /\ ~calls[k].result.threw
        /\ Len(calls[k].result.value) = 2
        /\ calls[k].result.value[1].index = 2
        /\ RatLess(calls[k].result.value[2].score, calls[k].result.value[1].score)

\* C16: search and getSuggestions never throw, whatever the query and the people array
C16_SearchNeverThrows == \A k \in 1..Len(calls) : ~calls[k].result.threw

\* every person of the array has a string as name and strings as alternative names
WellFormed(roster) ==
    \A i \in 1..Len(roster) :
        /\ IsString(roster[i].name)
        /\ roster[i].altNames # NULL
        /\ \A a \in 1..Len(roster[i].altNames) : IsString(roster[i].altNames[a])

\* C18: search for 'Ahmed' over a roster of persons that holds the Arabic name for Ahmed
\* returns that person with a score above 0.6 and the match type of a Latin query on an
\* Arabic name
C18_AhmedMatchesAcrossScripts ==
    \A k \in SearchCalls :
        LET c == calls[k]
        IN (c.input.query = <<"A", "h", "m", "e", "d">> /\ WellFormed(c.input.people)) =>
              /\ ~c.result.threw
              /\ \A i \in 1..Len(c.input.people) :
                    c.input.people[i].name = Ahmed
                    => \E r \in 1..Len(c.result.value) :
                          /\ c.result.value[r].index = i
                          /\ RatLess(Rat(6, 10), c.result.value[r].score)
                          /\ c.result.value[r].matchType = "English to Arabic Transliteration"

\* the search for 'Ahmed' over a roster of two, the second of them the Arabic name
C18_Witness ==
    \E k \in SearchCalls :
        /\ calls[k].input.query = <<"A", "h", "m", "e", "d">>
        /\ WellFormed(calls[k].input.people)
        /\ Len(calls[k].input.people) = 2
        /\ calls[k].input.people[2].name = Ahmed
        /\ calls[k].input.people[1].name # Ahmed
        /\ \E r \in 1..Len(calls[k].result.value) : calls[k].result.value[r].index = 2


\* C15: transliterateToken returns at most 60 strings for any token of a Latin
\* query, and buildArabicCandidatesFromEnglish returns at most 100 strings for a
\* query of any number of tokens.
C15_CandidateCountsAreCapped ==
    \A k \in 1..Len(calls) :
        calls[k].op = "buildArabicCandidatesFromEnglish" =>
            /\ \A t \in 1..Len(calls[k].result.tokenVariants) :
                   Len(calls[k].result.tokenVariants[t]) <= TokenCap
            /\ Len(calls[k].result.value) <= CandidateCap

\* a query of two tokens, one of which has more distinct variants than the token
\* limit keeps, and whose combinations were cut off by the combination loop
C15_Witness ==
    \E k \in 1..Len(calls) :
        /\ calls[k].op = "buildArabicCandidatesFromEnglish"
        /\ Len(calls[k].result.tokenVariants) = 2
        /\ \E t \in 1..2 :
               /\ Len(calls[k].result.tokenVariants[t]) = TokenCap
               /\ Len(transliterateToken_NoLimit(TokensOf(calls[k].input.query)[t])) > TokenCap
        /\ Len(calls[k].result.value) = CombineCap + 1

\* C19: two strings that differ only in letter variants folded by normalizeText, in
\* a stray hamza or in extra white space have normalized forms of similarity
\* exactly 1.
C19_FoldedSpellingsAreIdentical ==
    \A k \in 1..Len(calls) :
        calls[k].op = "getTextSimilarity" => calls[k].result.value = Rat(1, 1)

\* two different spellings, one with a hamza between two spaces, compared at 1
C19_Witness ==
    \E k \in 1..Len(calls) :
        /\ calls[k].op = "getTextSimilarity"
        /\ calls[k].input.text1 # calls[k].input.text2
        /\ \E i \in 2..(Len(calls[k].input.text2) - 1) :
               /\ calls[k].input.text2[i] = "HAMZA"
               /\ calls[k].input.text2[i - 1] = " "
               /\ calls[k].input.text2[i + 1] = " "
        /\ normalizeText(calls[k].input.text1) # <<>>
        /\ calls[k].result.value = Rat(1, 1)

\* the rows of a file that have a usable display name
RECURSIVE NamedRows(_)
NamedRows(rows) ==
    IF rows = <<>> THEN <<>>
    ELSE (IF Head(rows).name \in {NULL, <<>>, Dash} THEN <<>> ELSE <<Head(rows)>>)
             \o NamedRows(Tail(rows))

\* C17: a row without a usable display name (no name, an empty name or the
\* placeholder) is dropped without raising: the conversion returns, and what it
\* returns is what the other rows alone give, so the row adds no person and no
\* alias and the other rows are still processed.
C17_NamelessRowsAreDropped ==
    \A k \in 1..Len(calls) :
        (/\ calls[k].op = "convert"
         /\ NamedRows(calls[k].input) # calls[k].input) =>
            /\ calls[k].result # ConversionThrown
            /\ calls[k].result =
                   ResultOf(convertCSVToJSON(NewConverter, NamedRows(calls[k].input)))

\* 'P-' followed by exactly six digits
IsCanonicalId(id) ==
    /\ Len(id) = 2 + PadWidth
    /\ id[1] = "P"
    /\ id[2] = "-"
    /\ \A i \in 3..Len(id) : IsDigit(id[i])

\* C20: every person id is 'P-' followed by exactly six digits, for the people a
\* conversion returns (whatever the ID of the row, or none) and for the people of
\* data.people, those added with the admin form included.
C20_PersonIdsAreCanonical ==
    /\ \A i \in 1..Len(data.people) : IsCanonicalId(data.people[i].id)
    /\ \A k \in 1..Len(calls) :
           (calls[k].op = "convert" /\ calls[k].result # ConversionThrown) =>
               \A i \in 1..Len(calls[k].result.people) :
                   IsCanonicalId(calls[k].result.people[i].id)

\* C21: clicking a person node shows that person's details: once the click has been
\* dispatched to the handler of the node and then to the click handler of the
\* document, the details panel is active and shows the clicked person.
C21_NodeClickShowsDetails ==
    (event.phase = "done" /\ event.target = "node") =>
        (detailsPanel.active /\ detailsPanel.person = event.person)

\* the calls since the last logout (all of them when there was none)
SinceLogout ==
    LET outs == {k \in 1..Len(calls) : calls[k].op = "logout"}
    IN IF outs = {} THEN calls
       ELSE SubSeq(calls, (CHOOSE k \in outs : \A j \in outs : j <= k) + 1, Len(calls))

\* C22: the admin modal is active only if isAuthenticated is true; isAuthenticated
\* is true only if the correct password was given to the login prompt (since the
\* last logout); and right after logout the modal is inactive and isAuthenticated
\* is false.
C22_AdminModalIsGated ==
    /\ adminModal => isAuthenticated
    /\ isAuthenticated =>
           \E k \in 1..Len(SinceLogout) :
               /\ SinceLogout[k].op = "showAdminPanel"
               /\ SinceLogout[k].input = AdminPassword
    /\ (calls # <<>> /\ calls[Len(calls)].op = "logout") =>
           (~adminModal /\ ~isAuthenticated)

\* a wrong password was refused, the right one opened the modal, and logout closed it
C22_Witness ==
    /\ Len(calls) = 3
    /\ calls[1].op = "showAdminPanel"
    /\ calls[1].input \notin {NULL, AdminPassword}
    /\ ~calls[1].result.adminModal
    /\ calls[2].op = "showAdminPanel"
    /\ calls[2].input = AdminPassword
    /\ calls[2].result.adminModal
    /\ calls[3].op = "logout"
    /\ ~adminModal

\* C23: when loadInitialData has returned, currentData is a data set with a people
\* array, never null and never without people, whatever the fetch of the CSV file
\* gave and whatever text is stored under 'familyTreeData'.
C23_CurrentDataIsUsable ==
    \A k \in 1..Len(calls) :
        calls[k].op = "loadInitialData" => "people" \in DOMAIN data

\* the id occurs in the data set: as a person, in a person's references, in a
\* marriage (spouse or child), or as the target of an alias
Occurs(d, id) ==
    \/ \E i \in 1..Len(d.people) :
          \/ d.people[i].id = id
          \/ d.people[i].fatherId = id
          \/ d.people[i].motherId = id
          \/ id \in Elems(d.people[i].spouseIds)
    \/ \E m \in 1..Len(d.marriages) :
          \/ d.marriages[m].spouse1Id = id
          \/ d.marriages[m].spouse2Id = id
          \/ id \in Elems(d.marriages[m].children)
    \/ \E key \in DOMAIN d.aliases : d.aliases[key] = id

\* C24: after a confirmed deletePerson(id) the id occurs nowhere in the data set:
\* not as a person, not as fatherId, motherId or spouseIds entry, not as spouse or
\* child of a marriage, not as the target of an alias.
C24_DeletedIdIsGone ==
    [][\A id \in Ids(data.people) :
           (initialized /\ data' = deletePerson(data, id)) => ~Occurs(data', id)]_vars

\* C25: once the add-person form has been submitted with valid data, the tree returns the
\* new person from getPerson and getAllPeople, and the data set with the new person is the
\* value stored under 'familyTreeData'
C25_AddedPersonIsInTreeAndStored ==
    [][(initialized /\ Len(data'.people) = Len(data.people) + 1) =>
          LET person == data'.people[Len(data'.people)]
          IN /\ person.id \in Ids(treePeople')
             /\ \E i \in 1..Len(treePeople') : treePeople'[i] = person
             /\ localStorage'.familyTreeData = JSONstringify(data')]_vars


\* the people accepted by a fresh converter once the loop has handled the first k rows
AcceptedAfter(rows, k) == ProcessRows(NewConverter, SubSeq(rows, 1, k)).people

\* the rows the loop of a conversion gets through
RowsHandled(rows) == IF FirstThrowing(rows) = 0 THEN Len(rows) ELSE FirstThrowing(rows) - 1

\* C26: during ingestion, adding a row that is not a duplicate neither replaces nor
\* removes a person accepted earlier: each of them is still in the people collection,
\* with its own data, after the addPerson call, equal canonical ids included
C26_AcceptedPeopleAreKept ==
    \A c \in 1..Len(calls) :
        LET rows == calls[c].input
        IN \A k \in 1..RowsHandled(rows) :
              LET before == AcceptedAfter(rows, k - 1)
                  after == AcceptedAfter(rows, k)
                  person == createPersonFromCSV(rows[k])
              IN (RowUsable(rows[k]) /\ findDuplicatePerson(before, person) = 0) =>
                    \A i \in 1..Len(before) :
                        \E j \in 1..Len(after) : after[j] = before[i]


\* the generation the cache holds for a parent, plus one; 0 when there is no parent
ParentGeneration(parentId) ==
    IF ~StrTruthy(parentId) THEN 0
    ELSE IF parentId \in DOMAIN generationCache THEN generationCache[parentId] + 1
    ELSE 1

\* C27: computeGeneration terminates for every person of every data set ingestion can
\* produce, parent cycles included: buildElements returns, and the generation of each
\* person is 0 without parents, else 1 plus the larger of the parents' generations
C27_GenerationsAreComputed ==
    elements.built =>
        /\ ~elements.threw
        /\ Len(elements.nodes) = Len(people)
        /\ \A i \in 1..Len(elements.nodes) :
              elements.nodes[i].generation =
                  Max(ParentGeneration(people[i].fatherId), ParentGeneration(people[i].motherId))


\* how often an id occurs among the nodes of the hierarchy
NodeCount(id) == Cardinality({i \in 1..Len(hierarchy.nodes) : hierarchy.nodes[i] = id})

\* C28: every person of the tree appears exactly once as a node of the hierarchy that
\* buildHierarchy returns, under the single root or under the virtual root
C28_EveryPersonIsOneNode ==
    hierarchy.built => \A id \in Ids(treePeople) : NodeCount(id) = 1


\* a year of a person that is null, or an integer from 1500 to the current year
YearAllowed(y) == y = NoYear \/ (y[1] >= MinYear /\ y[1] <= CurrentYear)

\* C29: a person added through the add-person form has a non-empty name, a birth year
\* and a death year that are null or between 1500 and the current year, and a birth year
\* not after the death year when both are set; any other input leaves the data unchanged
C29_AddedPersonIsValid ==
    [][(initialized /\ Len(data'.people) = Len(data.people) + 1) =>
          LET person == data'.people[Len(data'.people)]
          IN /\ person.name # <<>>
             /\ YearAllowed(person.birthYear)
             /\ YearAllowed(person.deathYear)
             /\ (person.birthYear # NoYear /\ person.deathYear # NoYear) =>
                    person.birthYear[1] <= person.deathYear[1]]_vars


\* the array persisted under 'ft_logs'
PersistedLog == localStorage.ft_logs.value

\* C30: after any sequence of console calls and clear calls the array persisted under
\* 'ft_logs' is the last min(n, 1000) entries of the in-memory log, in call order, n
\* being the length of the in-memory log; it never holds more than 1000 entries; and
\* after clear the in-memory log and the persisted log are both empty
C30_PersistedLogIsTail ==
    calls # <<>> =>
        /\ localStorage.ft_logs.kind = "json"
        /\ Len(PersistedLog) = (IF Len(logs) < 1000 THEN Len(logs) ELSE 1000)
        /\ \A i \in 1..Len(PersistedLog) :
              PersistedLog[i] = logs[Len(logs) - Len(PersistedLog) + i]
        /\ Len(PersistedLog) <= 1000
        /\ calls[Len(calls)].op = "clear" => (logs = <<>> /\ PersistedLog = <<>>)

\* C30 happens: a console call has taken the in-memory log past 1000 entries
C30_Witness ==
    /\ calls # <<>>
    /\ calls[Len(calls)].op \in Levels
    /\ Len(logs) > 1000
    /\ Len(PersistedLog) = 1000

====
